---- MODULE Spec2Model ----
(***************************************************************************)
(* Building heating management system: the zone register device            *)
(* (src/src/zone_simulator.py), its Modbus client (src/src/modbus_client   *)
(* .py), the control decision (src/src/control_logic.py), the control job  *)
(* (src/src/server.py) and the replay arbiter                              *)
(* (src/scripts/run_historical_simulation.py).                             *)
(*                                                                         *)
(* Temperatures are exact decimals held as integers in hundredths of a     *)
(* degree Celsius (21.0 C = 2100); register values are the integers the    *)
(* code stores (tenths of a degree for the two temperature registers).     *)
(***************************************************************************)
EXTENDS Integers, Sequences, FiniteSets, TLC

VARIABLES
    \* ---- ZoneSimulator (one zone device) ----
    current_temperature,   \* self.current_temperature, hundredths
    target_temperature,    \* self.target_temperature, hundredths
    is_occupied,           \* self.is_occupied
    heater_on,             \* self.heater_on
    store,                 \* holding registers 0..3 of self.slave_context
    stop_event,            \* self._stop_event.is_set()
    sim_thread,            \* self._simulation_thread: "none", "alive", "dead"
    modbus_thread,         \* self._modbus_thread is alive
    pc,                    \* position of run_periodically
    lifecycle,             \* "Created", "Running" (start() returned last) or
                           \* "Stopped" (stop() returned last)
    wr,                    \* the last client register write and what followed it
    rd,                    \* the last client register read after that write
    live_threads,          \* how many updater and server threads are alive
    \* ---- control job (run_control_logic_for_all_zones_job) ----
    job,                   \* state of the job and its database session
    task,                  \* per zone: state of run_zone_control_logic
    dev,                   \* per zone: the registers the Modbus calls reach
    \* ---- pure decision functions ----
    inp,                   \* the inputs of one call
    out,                   \* the result of the call
    \* ---- price source and replay ----
    ENERGY_PRICES,         \* energy_pricer.ENERGY_PRICES, the module's dict
    calls,                 \* the calls made so far, with what they returned
    run                    \* one replay: the run record, the session, the loop

devVars == <<current_temperature, target_temperature, is_occupied, heater_on,
             store, stop_event, sim_thread, modbus_thread, pc, lifecycle, wr,
             rd, live_threads>>
ctlVars == <<job, task, dev>>
funVars == <<inp, out>>
repVars == <<ENERGY_PRICES, calls, run>>
vars == <<devVars, ctlVars, funVars, repVars>>

(***************************************************************************)
(* Arithmetic helpers                                                      *)
(***************************************************************************)
Abs(x) == IF x < 0 THEN -x ELSE x
Max(a, b) == IF a >= b THEN a ELSE b
Min(a, b) == IF a <= b THEN a ELSE b
Min2(S) == CHOOSE x \in S : \A y \in S : x <= y

\* Python round() of x/unit to an integer: nearest, ties to the even integer.
RoundHalfEven(x, unit) ==
    LET q == x \div unit
        r == x % unit
    IN  IF 2 * r < unit THEN q
        ELSE IF 2 * r > unit THEN q + 1
        ELSE IF q % 2 = 0 THEN q ELSE q + 1

\* Python int(): truncation toward zero of x/unit.
IntTrunc(x, unit) == IF x >= 0 THEN x \div unit ELSE -((-x) \div unit)

(***************************************************************************)
(* Register map                                                            *)
(***************************************************************************)
REG_CURRENT_TEMP == 0
REG_TARGET_TEMP == 1
REG_OCCUPANCY == 2
REG_HEATER_STATUS == 3
TOTAL_REGISTERS == 4
Registers == 0 .. (TOTAL_REGISTERS - 1)

\* Clamp of the simulated temperature, hundredths.
SimMinTemp == 1000
SimMaxTemp == 3000
\* Hysteresis band of the simulator, hundredths.
SimBand == 50

\* ---- bounds of the device model ----
\* Number of values a client may write to the target register.
NumTargetWrites == 2
\* The scaled values clients write to the target register (tenths).
TargetWriteValues == {205 + 10 * i : i \in 0 .. (NumTargetWrites - 1)}
\* Constructor arguments (hundredths): initial_temp, initial_target_temp.
InitialTemps == {2000}
InitialTargets == {2105}
\* random.uniform draws, rounded to the 0.05 grid (hundredths).
HeatingDraws == {20}
CoolingDraws == {10}
DriftDraws == {-5, 5}

NoWrite == [reg |-> -1, val |-> 0, before |-> 0, phase |-> 0, pubs |-> 0,
            flip |-> FALSE]
NoRead == [reg |-> -1, val |-> 0, pubs |-> 0]
\* No thread has been started.
NoThreads == [updaters |-> 0, servers |-> 0]
\* The registers the simulator publishes but never reads back: wr.before and
\* wr.pubs are kept for writes to these.
Guarded == {REG_CURRENT_TEMP, REG_OCCUPANCY, REG_HEATER_STATUS}
\* The registers for whose writes the following updater ticks are counted.
Ticked == {REG_TARGET_TEMP, REG_HEATER_STATUS}

(***************************************************************************)
(* ZoneSimulator: register encoding                                        *)
(***************************************************************************)
get_current_temperature_register_value == IntTrunc(current_temperature, 10)
get_target_temperature_register_value == IntTrunc(target_temperature, 10)
get_occupancy_register_value == IF is_occupied THEN 1 ELSE 0
get_heater_status_register_value == IF heater_on THEN 1 ELSE 0

\* round(float(value / 10.0), 1), in hundredths
RegisterToTemp(value) == value * 10

RegisterValues ==
    [r \in Registers |->
        CASE r = REG_CURRENT_TEMP -> get_current_temperature_register_value
          [] r = REG_TARGET_TEMP -> get_target_temperature_register_value
          [] r = REG_OCCUPANCY -> get_occupancy_register_value
          [] OTHER -> get_heater_status_register_value]

\* Mutant: the simulated temperature is not clamped.
ClampSimNone(t) == t

\* max(10.0, min(30.0, self.current_temperature))
ClampSim(t) == Max(SimMinTemp, Min(SimMaxTemp, t))


(***************************************************************************)
(* ZoneSimulator: the updater thread                                       *)
(***************************************************************************)
\* Mutant: the heater switches at the target itself, without the 0.5 C band.
SimOutcomesNoBand(cur, tgt, h) ==
    IF cur < tgt
    THEN {[t |-> ClampSim(cur + d), h |-> TRUE] : d \in HeatingDraws}
    ELSE {[t |-> ClampSim(cur - d), h |-> FALSE] : d \in CoolingDraws}

\* _simulate_temperature_change: the (temperature, heater) pairs one call can
\* leave, over the draws of random.uniform.
SimOutcomes(cur, tgt, h) ==
    IF h
    THEN IF cur < tgt
         THEN {[t |-> ClampSim(cur + d), h |-> TRUE] : d \in HeatingDraws}
         ELSE IF cur > tgt
         THEN {[t |-> ClampSim(cur - d), h |-> FALSE] : d \in CoolingDraws}
         ELSE {[t |-> ClampSim(cur), h |-> TRUE]}
    ELSE IF cur > tgt + SimBand
         THEN {[t |-> ClampSim(cur - d), h |-> FALSE] : d \in CoolingDraws}
         ELSE IF cur < tgt - SimBand
         THEN {[t |-> ClampSim(cur + d), h |-> TRUE] : d \in HeatingDraws}
         ELSE {[t |-> ClampSim(cur + d), h |-> FALSE] : d \in DriftDraws}

\* ZoneSimulator.__init__: heater on iff below target - 0.5; registers published.
InitDevice ==
    /\ current_temperature \in InitialTemps
    /\ target_temperature \in InitialTargets
    /\ is_occupied = FALSE
    /\ heater_on = (current_temperature < target_temperature - SimBand)
    /\ store = RegisterValues
    /\ stop_event = FALSE
    /\ sim_thread = "none"
    /\ modbus_thread = FALSE
    /\ pc = "none"
    /\ lifecycle = "Created"
    /\ wr = NoWrite
    /\ rd = NoRead
    /\ live_threads = NoThreads

\* Mutant: a thread is spawned whether or not the last one is alive.
SpawnAlways(thread_alive) == TRUE

\* "if self._simulation_thread is None or not self._simulation_thread
\* .is_alive()" in start(), and the negation of the early return of
\* start_modbus_server(): a new thread is spawned unless the last one is alive
SpawnNeeded(thread_alive) == ~thread_alive

\* start(): spawn the updater unless one is alive, then start_modbus_server().
Start ==
    /\ IF SpawnNeeded(sim_thread = "alive")
       THEN /\ stop_event' = FALSE
            /\ sim_thread' = "alive"
            /\ pc' = "check"
       ELSE UNCHANGED <<stop_event, sim_thread, pc>>
    /\ modbus_thread' = TRUE
    /\ live_threads' =
          [updaters |-> live_threads.updaters
                          + (IF SpawnNeeded(sim_thread = "alive") THEN 1 ELSE 0),
           servers |-> live_threads.servers
                          + (IF SpawnNeeded(modbus_thread) THEN 1 ELSE 0)]
    /\ lifecycle' = "Running"
    /\ UNCHANGED <<current_temperature, target_temperature, is_occupied,
                   heater_on, store, wr, rd>>
    /\ UNCHANGED <<ctlVars, funVars, repVars>>

\* stop(): set the stop event; stop_modbus_server() only prints; the join is
\* bounded by a timeout, so stop() returns whether or not the updater exited.
Stop ==
    /\ stop_event' = TRUE
    /\ lifecycle' = "Stopped"
    /\ UNCHANGED <<current_temperature, target_temperature, is_occupied,
                   heater_on, store, sim_thread, modbus_thread, pc, wr, rd>>
    /\ UNCHANGED <<live_threads, ctlVars, funVars, repVars>>

\* Mutant: the loop test never sees the stop event.
LoopStopsNever(event_is_set) == FALSE

\* while not self._stop_event.is_set(): the loop ends when the event is set
LoopStops(event_is_set) == event_is_set

\* run_periodically: the loop test (after the sleep of the previous tick).
LoopCheck ==
    /\ sim_thread = "alive"
    /\ pc = "check"
    /\ IF LoopStops(stop_event)
       THEN /\ sim_thread' = "dead"
            /\ pc' = "exited"
            /\ wr' = wr
            /\ live_threads' = [live_threads EXCEPT !.updaters = @ - 1]
       ELSE /\ sim_thread' = sim_thread
            /\ pc' = "update"
            /\ live_threads' = live_threads
            /\ wr' = IF wr.reg \in Ticked /\ wr.phase \in {0, 2}
                     THEN [wr EXCEPT !.phase = wr.phase + 1]
                     ELSE wr
    /\ UNCHANGED <<current_temperature, target_temperature, is_occupied,
                   heater_on, store, stop_event, modbus_thread, rd>>
    /\ UNCHANGED <<lifecycle, ctlVars, funVars, repVars>>

\* run_periodically: self.update_simulation()
UpdateSimulation ==
    /\ sim_thread = "alive"
    /\ pc = "update"
    /\ \E o \in SimOutcomes(current_temperature, target_temperature, heater_on) :
          /\ current_temperature' = o.t
          /\ heater_on' = o.h
          /\ wr' = IF wr.reg = REG_HEATER_STATUS /\ wr.phase = 1
                   THEN [wr EXCEPT !.flip = (o.h # heater_on)]
                   ELSE wr
    /\ pc' = "publish"
    /\ UNCHANGED <<target_temperature, is_occupied, store, stop_event,
                   sim_thread, modbus_thread, rd>>
    /\ UNCHANGED <<lifecycle, live_threads, ctlVars, funVars, repVars>>

\* run_periodically: self.update_modbus_datastore(): all four registers are
\* overwritten with the runtime state.
UpdateModbusDatastore ==
    /\ sim_thread = "alive"
    /\ pc = "publish"
    /\ store' = RegisterValues
    /\ pc' = "readback"
    /\ wr' = IF wr.reg \in Guarded THEN [wr EXCEPT !.pubs = 1] ELSE wr
    /\ UNCHANGED <<current_temperature, target_temperature, is_occupied,
                   heater_on, stop_event, sim_thread, modbus_thread, rd>>
    /\ UNCHANGED <<lifecycle, live_threads, ctlVars, funVars, repVars>>

\* run_periodically: self.read_target_temp_from_modbus(), then time.sleep().
ReadTargetTempFromModbus ==
    /\ sim_thread = "alive"
    /\ pc = "readback"
    /\ target_temperature' =
          IF store[REG_TARGET_TEMP] # get_target_temperature_register_value
          THEN RegisterToTemp(store[REG_TARGET_TEMP])
          ELSE target_temperature
    /\ pc' = "check"
    /\ wr' = IF wr.reg \in Ticked /\ wr.phase = 1
             THEN [wr EXCEPT !.phase = 2]
             ELSE wr
    /\ UNCHANGED <<current_temperature, is_occupied, heater_on, store,
                   stop_event, sim_thread, modbus_thread, rd>>
    /\ UNCHANGED <<lifecycle, live_threads, ctlVars, funVars, repVars>>

\* run_periodically has no exception handler: an error raised by one of the
\* three calls of a tick leaves the loop and ends the updater thread.
TickError ==
    /\ sim_thread = "alive"
    /\ pc \in {"update", "publish", "readback"}
    /\ sim_thread' = "dead"
    /\ pc' = "crashed"
    /\ live_threads' = [live_threads EXCEPT !.updaters = @ - 1]
    /\ UNCHANGED <<current_temperature, target_temperature, is_occupied,
                   heater_on, store, stop_event, modbus_thread, wr, rd>>
    /\ UNCHANGED <<lifecycle, ctlVars, funVars, repVars>>

\* _run_modbus_server: StartTcpServer raises or returns (the port is taken,
\* the server is shut down) and the server thread ends.
ServerExit ==
    /\ modbus_thread
    /\ modbus_thread' = FALSE
    /\ live_threads' = [live_threads EXCEPT !.servers = @ - 1]
    /\ UNCHANGED <<current_temperature, target_temperature, is_occupied,
                   heater_on, store, stop_event, sim_thread, pc, wr, rd>>
    /\ UNCHANGED <<lifecycle, ctlVars, funVars, repVars>>

(***************************************************************************)
(* The register server and its clients (modbus_client.py)                  *)
(***************************************************************************)
\* The server thread applies a write-single-register request to the holding
\* register block: the block has no per-register write protection.
ServeWrite(reg, value) ==
    /\ modbus_thread
    /\ store' = [store EXCEPT ![reg] = value]
    /\ wr' = [reg |-> reg, val |-> value,
              before |-> IF reg \in Guarded THEN store[reg] ELSE 0,
              phase |-> 0, pubs |-> 0, flip |-> FALSE]
    /\ rd' = NoRead
    /\ UNCHANGED <<current_temperature, target_temperature, is_occupied,
                   heater_on, stop_event, sim_thread, modbus_thread, pc>>
    /\ UNCHANGED <<lifecycle, live_threads, ctlVars, funVars, repVars>>

\* write_target_temperature(host, port, temp): scaled = int(round(temp * 10))
ScaleTemp(temp) == RoundHalfEven(temp, 10)

WriteTargetTemperature ==
    \E v \in TargetWriteValues : ServeWrite(REG_TARGET_TEMP, ScaleTemp(v * 10))

\* write_heater_state(host, port, state): value = 1 if state else 0
WriteHeaterState ==
    \E state \in BOOLEAN :
        ServeWrite(REG_HEATER_STATUS, IF state THEN 1 ELSE 0)

\* A client writing one of the other two registers (write_register).
WriteOtherRegister ==
    \/ \E v \in {Min2(TargetWriteValues)} : ServeWrite(REG_CURRENT_TEMP, v)
    \/ ServeWrite(REG_OCCUPANCY, 1)

\* round(float(scaled_value) / 10.0, 2), in hundredths
ReadTemp(scaled_value) == scaled_value * 10
\* bool(rr.registers[0])
ReadBool(value) == value # 0

\* read_current_temperature / read_target_temperature / read_occupancy_status /
\* read_heater_status: one holding register is read; rd keeps the raw value of
\* a read of the register last written.
ClientRead ==
    /\ modbus_thread
    /\ \E reg \in Registers :
          rd' = IF reg = wr.reg
                THEN [reg |-> reg, val |-> store[reg], pubs |-> wr.pubs]
                ELSE rd
    /\ UNCHANGED <<current_temperature, target_temperature, is_occupied,
                   heater_on, store, stop_event, sim_thread, modbus_thread,
                   pc, wr>>
    /\ UNCHANGED <<lifecycle, live_threads, ctlVars, funVars, repVars>>


(***************************************************************************)
(* ZonePreferences (schemas.py) and the schedule lookup                    *)
(***************************************************************************)
\* Python None in an Optional field or an absent reading.
None == -100000

\* ZonePreferences(): the defaults of every field, temperatures in hundredths.
DefaultPrefs ==
    [valid |-> TRUE,
     schedule |-> <<>>,
     default_occupied_temp |-> 2100,
     default_unoccupied_temp |-> 1700,
     min_target_temp |-> 1500,
     max_target_temp |-> 2500,
     use_occupancy_for_heating |-> TRUE,
     setback_setpoint |-> 1600,
     allow_weather_adjustment |-> FALSE,
     weather_adjustment_freezing_threshold |-> 0,
     weather_adjustment_cold_boost_degrees |-> 50,
     weather_adjustment_mild_threshold |-> 1500,
     weather_adjustment_mild_reduction_degrees |-> 0,
     peak_occupied_temp_reduction |-> 50,
     super_peak_occupied_temp_reduction |-> 100,
     allow_off_peak_preconditioning |-> FALSE,
     off_peak_occupied_temp_increase |-> 50,
     allow_predictive_control |-> FALSE,
     predictive_window_hours |-> 4,
     predictive_temp_drop_threshold |-> 200,
     predictive_preheat_increase |-> 50,
     predictive_temp_rise_threshold |-> 200,
     predictive_avoid_overheat_reduction |-> 50,
     prioritize_comfort_over_peak_cost |-> FALSE,
     max_combined_preheat_boost |-> 150,
     high_outside_temp_threshold |-> 2100,
     occupied_temp_reduction_high_outside |-> 100]

\* sorted(preferences.schedule, key=time): a stable insertion of each entry.
RECURSIVE InsertByTime(_, _)
InsertByTime(sorted, e) ==
    IF sorted = <<>> THEN <<e>>
    ELSE IF sorted[Len(sorted)].time <= e.time THEN Append(sorted, e)
    ELSE Append(InsertByTime(SubSeq(sorted, 1, Len(sorted) - 1), e),
                sorted[Len(sorted)])

\* Mutant: the entries are looked up in their stored order.
SortedScheduleStored(schedule) == schedule

RECURSIVE SortedSchedule(_)
SortedSchedule(schedule) ==
    IF schedule = <<>> THEN <<>>
    ELSE InsertByTime(SortedSchedule(SubSeq(schedule, 1, Len(schedule) - 1)),
                      schedule[Len(schedule)])

\* The for loop of get_active_schedule_setpoint over the sorted entries from
\* index i: the index of the active entry (0 = none), with the loop's break.
RECURSIVE ActiveIndex(_, _, _, _)
ActiveIndex(sorted, now, i, active) ==
    IF i > Len(sorted) THEN active
    ELSE IF sorted[i].time <= now THEN ActiveIndex(sorted, now, i + 1, i)
    ELSE active

get_active_schedule_setpoint(preferences, current_time_dt) ==
    IF preferences.schedule = <<>> THEN preferences.default_occupied_temp
    ELSE LET sorted == SortedSchedule(preferences.schedule)
             a == ActiveIndex(sorted, current_time_dt, 1, 0)
         IN  IF a # 0 THEN sorted[a].occupied_temp
             ELSE preferences.default_occupied_temp

(***************************************************************************)
(* make_control_decision (control_logic.py)                                *)
(***************************************************************************)
LOWER_THRESHOLD_OFFSET == 50
UPPER_THRESHOLD_OFFSET == 20

\* min/max clamps, each applied only when the limit is not None
ClampTarget(preferences, t) ==
    LET lo == IF preferences.min_target_temp # None
              THEN Max(t, preferences.min_target_temp) ELSE t
    IN  IF preferences.max_target_temp # None
        THEN Min(lo, preferences.max_target_temp) ELSE lo

\* Mutant: the threshold decision without the dead-band (the prior heater
\* state is ignored).
HysteresisNoBand(current_temp, target_setpoint, current_heater_state_from_modbus) ==
    current_temp < target_setpoint - LOWER_THRESHOLD_OFFSET

\* the hysteresis of make_control_decision
Hysteresis(current_temp, target_setpoint, current_heater_state_from_modbus) ==
    IF current_temp < target_setpoint - LOWER_THRESHOLD_OFFSET THEN TRUE
    ELSE IF current_temp > target_setpoint + UPPER_THRESHOLD_OFFSET THEN FALSE
    ELSE current_heater_state_from_modbus

\* Mutant: the setback is not applied.
OccupancyAdjustedNoSetback(preferences, current_occupancy, target_setpoint) ==
    target_setpoint

\* the occupancy adjustment: the setback applies when unoccupied
OccupancyAdjusted(preferences, current_occupancy, target_setpoint) ==
    IF preferences.use_occupancy_for_heating /\ ~current_occupancy
       /\ preferences.setback_setpoint # None
    THEN preferences.setback_setpoint
    ELSE target_setpoint

\* the weather adjustment and the clamp re-applied after it; outdoor_temp is
\* current_weather['temp_c'], None when there is no weather or no reading
WeatherAdjusted(preferences, outdoor_temp, target_setpoint) ==
    IF ~preferences.allow_weather_adjustment \/ outdoor_temp = None
    THEN target_setpoint
    ELSE ClampTarget(preferences,
           IF outdoor_temp < preferences.weather_adjustment_freezing_threshold
           THEN target_setpoint + preferences.weather_adjustment_cold_boost_degrees
           ELSE IF outdoor_temp > preferences.weather_adjustment_mild_threshold
                   /\ preferences.weather_adjustment_mild_reduction_degrees > 0
           THEN target_setpoint - preferences.weather_adjustment_mild_reduction_degrees
           ELSE target_setpoint)

\* Comparing the outdoor temperature with a threshold that is None raises a
\* TypeError outside the function's try block.
DecisionRaises(preferences, outdoor_temp) ==
    /\ preferences.allow_weather_adjustment
    /\ outdoor_temp # None
    /\ \/ preferences.weather_adjustment_freezing_threshold = None
       \/ /\ outdoor_temp >= preferences.weather_adjustment_freezing_threshold
          /\ preferences.weather_adjustment_mild_threshold = None

\* Returns (heater_on, target_setpoint_used); raised models the exception.
make_control_decision(preferences, current_temp, current_occupancy, current_heater_state_from_modbus, current_time, outdoor_temp) ==
    IF ~preferences.valid
    THEN [raised |-> FALSE, heater_on |-> FALSE, target |-> None]
    ELSE IF get_active_schedule_setpoint(preferences, current_time) = None
    THEN [raised |-> FALSE, heater_on |-> FALSE, target |-> None]
    ELSE IF DecisionRaises(preferences, outdoor_temp)
    THEN [raised |-> TRUE, heater_on |-> FALSE, target |-> None]
    ELSE LET scheduled == get_active_schedule_setpoint(preferences, current_time)
             setback == OccupancyAdjusted(preferences, current_occupancy, scheduled)
             clamped == ClampTarget(preferences, setback)
             target_setpoint == WeatherAdjusted(preferences, outdoor_temp, clamped)
         IN  [raised |-> FALSE,
              heater_on |-> Hysteresis(current_temp, target_setpoint,
                                       current_heater_state_from_modbus),
              target |-> target_setpoint]

(***************************************************************************)
(* calculate_ideal_target (scripts/run_historical_simulation.py)           *)
(***************************************************************************)
\* _get_setpoints_for_time: the reversed scan of the sorted entries from index
\* i down: the index of the first entry with time <= time_to_check (0 = none).
RECURSIVE ReverseScan(_, _, _)
ReverseScan(sorted, time_to_check, i) ==
    IF i = 0 THEN 0
    ELSE IF time_to_check >= sorted[i].time THEN i
    ELSE ReverseScan(sorted, time_to_check, i - 1)

_get_setpoints_for_time(time_to_check, schedule_entries, default_occ_temp, default_unocc_temp) ==
    LET a == ReverseScan(schedule_entries, time_to_check, Len(schedule_entries))
    IN  IF a # 0
        THEN [occupied_temp |-> schedule_entries[a].occupied_temp,
              unoccupied_temp |-> schedule_entries[a].unoccupied_temp,
              is_scheduled |-> TRUE]
        ELSE [occupied_temp |-> default_occ_temp,
              unoccupied_temp |-> default_unocc_temp,
              is_scheduled |-> FALSE]

\* energy_ok_for_preheat
EnergyOkForPreheat(zone_prefs, energy_price_level) ==
    /\ energy_price_level # "super_peak"
    /\ (energy_price_level # "peak" \/ zone_prefs.prioritize_comfort_over_peak_cost)

\* Mutant: the loop without its breaks on a start value: the last slot at
\* which a branch fires decides.
RECURSIVE PredictiveScanLastWins(_, _, _, _, _, _, _, _, _)
PredictiveScanLastWins(i, ideal, zone_prefs, parsed, current_internal_temp, occupied, current_outside_temp, hourly_forecast_data, energy_price_level) ==
    IF i > zone_prefs.predictive_window_hours \/ i > Len(hourly_forecast_data)
    THEN ideal
    ELSE LET future_temp_c == hourly_forecast_data[i].temp_c
             future == _get_setpoints_for_time(hourly_forecast_data[i].time,
                           parsed, zone_prefs.default_occupied_temp,
                           zone_prefs.default_unoccupied_temp)
             drop == (current_outside_temp - future_temp_c)
                        > zone_prefs.predictive_temp_drop_threshold
             rise == (future_temp_c - current_outside_temp)
                        > zone_prefs.predictive_temp_rise_threshold
             next == PredictiveScanLastWins(i + 1, ideal, zone_prefs, parsed,
                        current_internal_temp, occupied,
                        current_outside_temp, hourly_forecast_data,
                        energy_price_level)
         IN  IF next # ideal THEN next
             ELSE IF drop /\ EnergyOkForPreheat(zone_prefs, energy_price_level)
                     /\ occupied
             THEN ideal + zone_prefs.predictive_preheat_increase
             ELSE IF drop /\ EnergyOkForPreheat(zone_prefs, energy_price_level)
                     /\ future.is_scheduled
                     /\ future_temp_c < future.occupied_temp
                     /\ current_internal_temp < future.occupied_temp
             THEN future.occupied_temp + zone_prefs.predictive_preheat_increase
             ELSE IF rise /\ occupied
             THEN ideal - zone_prefs.predictive_avoid_overheat_reduction
             ELSE next

\* The predictive loop from hour i on; ideal is the target before the loop. The
\* result is the target after the loop (each branch that fires breaks).
RECURSIVE PredictiveScan(_, _, _, _, _, _, _, _, _)
PredictiveScan(i, ideal, zone_prefs, parsed, current_internal_temp, occupied, current_outside_temp, hourly_forecast_data, energy_price_level) ==
    IF i > zone_prefs.predictive_window_hours \/ i > Len(hourly_forecast_data)
    THEN ideal
    ELSE LET future_temp_c == hourly_forecast_data[i].temp_c
             future == _get_setpoints_for_time(hourly_forecast_data[i].time,
                           parsed, zone_prefs.default_occupied_temp,
                           zone_prefs.default_unoccupied_temp)
             drop == (current_outside_temp - future_temp_c)
                        > zone_prefs.predictive_temp_drop_threshold
             rise == (future_temp_c - current_outside_temp)
                        > zone_prefs.predictive_temp_rise_threshold
             next == PredictiveScan(i + 1, ideal, zone_prefs, parsed,
                        current_internal_temp, occupied,
                        current_outside_temp, hourly_forecast_data,
                        energy_price_level)
         IN  IF future_temp_c = None THEN next
             ELSE IF drop /\ EnergyOkForPreheat(zone_prefs, energy_price_level)
                     /\ occupied
             THEN ideal + zone_prefs.predictive_preheat_increase
             ELSE IF drop /\ EnergyOkForPreheat(zone_prefs, energy_price_level)
                     /\ future.is_scheduled
                     /\ future_temp_c < future.occupied_temp
                     /\ current_internal_temp < future.occupied_temp
             THEN future.occupied_temp + zone_prefs.predictive_preheat_increase
             ELSE IF rise /\ occupied
             THEN ideal - zone_prefs.predictive_avoid_overheat_reduction
             ELSE next

\* the cap of a boosted target at occupied setpoint + max_combined_preheat_boost
CapBoost(ideal, occupied, active_unoccupied_setpoint, max_allowed) ==
    IF (occupied \/ ideal > active_unoccupied_setpoint) /\ ideal > max_allowed
    THEN max_allowed
    ELSE ideal

\* the price-driven deltas, applied when occupied
PriceAdjusted(ideal, zone_prefs, occupied, energy_price_level, max_allowed) ==
    IF ~occupied THEN ideal
    ELSE IF energy_price_level = "peak"
    THEN ideal - zone_prefs.peak_occupied_temp_reduction
    ELSE IF energy_price_level = "super_peak"
    THEN ideal - zone_prefs.super_peak_occupied_temp_reduction
    ELSE IF energy_price_level = "off_peak"
            /\ zone_prefs.allow_off_peak_preconditioning
    THEN Min(ideal + zone_prefs.off_peak_occupied_temp_increase, max_allowed)
    ELSE ideal

\* the reduction when occupied and the outdoor temperature is high
HighOutsideAdjusted(ideal, zone_prefs, occupied, current_outside_temp) ==
    IF occupied /\ current_outside_temp # None
       /\ current_outside_temp > zone_prefs.high_outside_temp_threshold
    THEN ideal - zone_prefs.occupied_temp_reduction_high_outside
    ELSE ideal

\* round(x, 1): to the nearest tenth of a degree, in hundredths
RoundTenth(x) == RoundHalfEven(x, 10) * 10

\* max(min_target_temp, min(max_target_temp, x)), then round(., 1)
ClampAndRound(zone_prefs, x) ==
    RoundTenth(Max(zone_prefs.min_target_temp,
                   Min(zone_prefs.max_target_temp, x)))

calculate_ideal_target(sim_time, zone_prefs, current_internal_temp, occupied, current_outside_temp, hourly_forecast_data, energy_price_level) ==
    LET parsed == SortedSchedule(zone_prefs.schedule)
        now == _get_setpoints_for_time(sim_time, parsed,
                   zone_prefs.default_occupied_temp,
                   zone_prefs.default_unoccupied_temp)
        base == IF occupied THEN now.occupied_temp ELSE now.unoccupied_temp
        predicted ==
            IF zone_prefs.allow_predictive_control
               /\ hourly_forecast_data # <<>> /\ current_outside_temp # None
            THEN PredictiveScan(1, base, zone_prefs, parsed,
                     current_internal_temp, occupied, current_outside_temp,
                     hourly_forecast_data, energy_price_level)
            ELSE base
        max_allowed == now.occupied_temp + zone_prefs.max_combined_preheat_boost
        capped == CapBoost(predicted, occupied, now.unoccupied_temp, max_allowed)
        priced == PriceAdjusted(capped, zone_prefs, occupied,
                                energy_price_level, max_allowed)
        high == HighOutsideAdjusted(priced, zone_prefs, occupied,
                                    current_outside_temp)
    IN  ClampAndRound(zone_prefs, high)

(***************************************************************************)
(* Specification of the device: one ZoneSimulator, its updater thread, its *)
(* register server and Modbus clients.                                     *)
(*                                                                         *)
(* wr.phase counts the updater ticks after the last client write: 0 = no   *)
(* tick has begun since the write, 1 = the first tick begun after the      *)
(* write is in progress, 2 = that tick has ended, 3 = a later tick began.  *)
(***************************************************************************)
CtlIdle == /\ job = "unused" /\ task = "unused" /\ dev = "unused"
FunIdle == /\ inp = "unused" /\ out = "unused"
RepIdle == /\ ENERGY_PRICES = "unused" /\ calls = "unused" /\ run = "unused"

Init == InitDevice /\ CtlIdle /\ FunIdle /\ RepIdle

Next ==
    \/ Start
    \/ Stop
    \/ LoopCheck
    \/ UpdateSimulation
    \/ UpdateModbusDatastore
    \/ ReadTargetTempFromModbus
    \/ WriteTargetTemperature
    \/ WriteHeaterState
    \/ WriteOtherRegister
    \/ ClientRead

Spec == Init /\ [][Next]_vars

\* C1: once the first updater tick begun after a client write of v to the
\* target register has ended, the runtime target_temperature is round(v/10, 1).
C1_TargetWriteReachesState ==
    (wr.reg = REG_TARGET_TEMP /\ wr.phase >= 2)
        => target_temperature = RegisterToTemp(wr.val)

\* C2: a client read of the target register after a client write of v to it (no
\* client write in between) returns a temperature within 0.1 C of round(v/10, 1).
C2_TargetRoundTrip ==
    (wr.reg = REG_TARGET_TEMP /\ rd.reg = REG_TARGET_TEMP)
        => Abs(ReadTemp(rd.val) - RegisterToTemp(wr.val)) <= 10

\* C9: a client write to register 0, 2 or 3 does not change what a later read
\* of that register returns (here: a read before the next publish returns the
\* value the register held before the write).
C9_OnlyTargetWritable ==
    (wr.reg \in {REG_CURRENT_TEMP, REG_OCCUPANCY, REG_HEATER_STATUS}
        /\ rd.reg = wr.reg /\ rd.pubs = 0)
        => rd.val = wr.before

\* C10: at the end of the first updater tick begun after a heater-state write,
\* heater_on equals the written value and the heater register shows it, unless
\* the simulator's own rule changed heater_on in that tick.
C10_HeaterWriteMutatesState ==
    (wr.reg = REG_HEATER_STATUS /\ wr.phase = 2 /\ ~wr.flip)
        => /\ heater_on = ReadBool(wr.val)
           /\ store[REG_HEATER_STATUS] = wr.val

\* C11: no client read or write of the registers is executed between the steps
\* of one updater tick (after the state update and before the publish, after
\* the publish and before the read-back): a step taken there is a tick step.
C11_TickExcludesClients ==
    [][(pc \in {"publish", "readback"} /\ pc' = pc)
          => (store' = store /\ wr' = wr /\ rd' = rd)]_vars

\* C12: after stop() returned (and until the next start()) the register server
\* serves no client request: the registers, and the records of the last
\* client write and read, change only by the updater's own tick steps.
C12_NoServeAfterStop ==
    [][(lifecycle = "Stopped" /\ lifecycle' = "Stopped" /\ pc' = pc)
          => (store' = store /\ wr' = wr /\ rd' = rd)]_vars

(***************************************************************************)
(* Specification of the device's lifecycle: start(), stop() and the        *)
(* updater thread with no client connected; a call of the tick may raise.  *)
(* The operating system schedules the updater thread: its steps are taken  *)
(* under weak fairness.                                                    *)
(***************************************************************************)
Updater ==
    \/ LoopCheck
    \/ UpdateSimulation
    \/ UpdateModbusDatastore
    \/ ReadTargetTempFromModbus

NextLifecycle ==
    \/ Start
    \/ Stop
    \/ LoopCheck
    \/ UpdateSimulation
    \/ UpdateModbusDatastore
    \/ ReadTargetTempFromModbus
    \/ TickError
    \/ ServerExit

SpecLifecycle == Init /\ [][NextLifecycle]_vars /\ WF_vars(Updater)

\* C13: once the stop event is set the updater begins no new tick, the runtime
\* temperature and heater state change only while the tick in progress
\* finishes, and the updater thread eventually ends.
C13_StopEffective ==
    /\ [][stop_event
            => /\ (pc = "check" => pc' # "update")
               /\ (pc # "update"
                     => /\ current_temperature' = current_temperature
                        /\ heater_on' = heater_on)]_vars
    /\ ((stop_event /\ sim_thread = "alive") ~> (sim_thread = "dead"))

\* C13 witness: stop() was called during a tick, the tick finished and the
\* updater thread ended at the loop test.
C13_Witness ==
    /\ lifecycle = "Stopped" /\ stop_event
    /\ sim_thread = "dead" /\ pc = "exited"
    /\ current_temperature \notin InitialTemps

\* C14: after start() returned (and until the next stop()) an updater is active
\* and keeps ticking: its thread is alive and its stop event is clear (the
\* case of a tick that raised is left to C15).
C14_RunningAfterStart ==
    (lifecycle = "Running" /\ pc # "crashed")
        => (sim_thread = "alive" /\ ~stop_event)

\* C15: an error raised inside a tick does not end the updater loop: the
\* updater thread ends only when the stop event is set.
C15_TickErrorCaught ==
    [][(sim_thread = "alive" /\ sim_thread' # "alive") => stop_event]_vars

\* C39: whatever sequence of start() and stop() calls one thread issues, at
\* most one updater thread and at most one register-server thread of the
\* simulator are alive at any time.
C39_OneThreadOfEachKind ==
    /\ live_threads.updaters <= 1
    /\ live_threads.servers <= 1

\* C39 witness: start() was called again after stop() while the updater of
\* the first start() was still alive; both threads are still single.
C39_Witness ==
    /\ lifecycle = "Running" /\ stop_event
    /\ sim_thread = "alive"
    /\ live_threads = [updaters |-> 1, servers |-> 1]



(***************************************************************************)
(* energy_pricer.py                                                        *)
(***************************************************************************)
\* get_current_energy_price(time_override)["level"], by the hour of the
\* time of day (minutes)
get_current_energy_price(time_override) ==
    LET current_hour == time_override \div 60
    IN  IF 0 <= current_hour /\ current_hour < 7 THEN "OFF_PEAK"
        ELSE IF 17 <= current_hour /\ current_hour < 21 THEN "PEAK"
        ELSE "STANDARD"

(***************************************************************************)
(* Specification of the decision functions: one call of                    *)
(* make_control_decision or of calculate_ideal_target on inputs drawn from *)
(* bounded sets.                                                           *)
(***************************************************************************)
\* ---- bounds of the decision inputs ----
\* current temperatures: a 0.1 C grid from 15.0 C up
NumTempSteps == 75
CurrentTemps == {1500 + 10 * k : k \in 0 .. NumTempSteps}

\* a schedule stored out of time order (17:00 before 07:00)
Schedule2 ==
    <<[time |-> 1020, occupied_temp |-> 1900, unoccupied_temp |-> 1600],
      [time |-> 420, occupied_temp |-> 2200, unoccupied_temp |-> 1800]>>
Schedules == {<<>>, Schedule2}
\* times of day, minutes: before every entry, between the two, after both
TimesOfDay == {360, 600, 1100}
\* (min_target_temp, max_target_temp) pairs, min <= max
Limits == {<<1500, 2500>>, <<1504, 2506>>, <<2000, 2050>>}
\* outdoor temperature readings, None = no weather
OutdoorTemps == {None, -500, 1000, 2500}

LivePrefs ==
    {[DefaultPrefs EXCEPT !.schedule = s,
                          !.min_target_temp = l[1],
                          !.max_target_temp = l[2],
                          !.setback_setpoint = sb,
                          !.allow_weather_adjustment = w,
                          !.weather_adjustment_mild_reduction_degrees =
                              IF w THEN 100 ELSE 0] :
        s \in Schedules, l \in Limits, sb \in {1600, None}, w \in BOOLEAN}
    \cup {[DefaultPrefs EXCEPT !.valid = FALSE],
          [DefaultPrefs EXCEPT !.default_occupied_temp = None],
          [DefaultPrefs EXCEPT !.min_target_temp = None,
                               !.max_target_temp = None],
          [DefaultPrefs EXCEPT !.allow_weather_adjustment = TRUE,
                               !.weather_adjustment_freezing_threshold = None]}

LiveInputs ==
    [kind : {"live"}, prefs : LivePrefs, current_temp : CurrentTemps,
     occupancy : BOOLEAN, heater : BOOLEAN, time : TimesOfDay,
     outdoor : OutdoorTemps]

ReplayPrefs ==
    {[DefaultPrefs EXCEPT !.schedule = s,
                          !.min_target_temp = l[1],
                          !.max_target_temp = l[2],
                          !.default_occupied_temp = d[1],
                          !.default_unoccupied_temp = d[2],
                          !.allow_predictive_control = f[1],
                          !.prioritize_comfort_over_peak_cost = f[2],
                          !.allow_off_peak_preconditioning = f[3]] :
        s \in Schedules, l \in {<<1500, 2500>>, <<1504, 2506>>},
        d \in {<<2100, 1700>>, <<2600, 1400>>},
        f \in {<<FALSE, FALSE, FALSE>>, <<TRUE, FALSE, TRUE>>,
               <<TRUE, TRUE, FALSE>>, <<TRUE, FALSE, FALSE>>}}
    \cup {[DefaultPrefs EXCEPT !.schedule = Schedule2,
                               !.default_occupied_temp = 2007,
                               !.allow_predictive_control = TRUE]}

\* hourly forecasts: a drop then a rise; a small rise then a large one; a
\* drop in the 07:00 period then a larger drop in the 17:00 period
Forecasts ==
    {<<>>,
     <<[time |-> 480, temp_c |-> 700], [time |-> 540, temp_c |-> 1300]>>,
     <<[time |-> 480, temp_c |-> 1100], [time |-> 540, temp_c |-> 1400]>>,
     <<[time |-> 480, temp_c |-> 700], [time |-> 1080, temp_c |-> 300]>>}
\* the levels get_current_energy_price emits, and the lower-case ones
PriceLevels == {"OFF_PEAK", "STANDARD", "PEAK", "off_peak", "peak", "super_peak"}

ReplayInputs ==
    [kind : {"replay"}, prefs : ReplayPrefs, time : TimesOfDay,
     current_temp : {1650, 2050}, occupancy : BOOLEAN,
     outdoor : {None, 1000, 2500}, forecast : Forecasts, level : PriceLevels]

\* ---- inputs of the schedule resolvers ----
\* the longest stored schedule
MaxScheduleLen == 3
\* schedule entries: two of them at the same time of day
ScheduleEntries ==
    {[time |-> 300, occupied_temp |-> 1800, unoccupied_temp |-> 1650],
     [time |-> 600, occupied_temp |-> 2300, unoccupied_temp |-> 1700],
     [time |-> 600, occupied_temp |-> 2250, unoccupied_temp |-> 1750],
     [time |-> 1380, occupied_temp |-> 2000, unoccupied_temp |-> 1500]}
\* every stored order of up to MaxScheduleLen distinct entries
ResolverSchedules ==
    {sch \in UNION {[1 .. n -> ScheduleEntries] : n \in 0 .. MaxScheduleLen} :
        \A i, j \in DOMAIN sch : i # j => sch[i] # sch[j]}
\* query times of day: at, just before and just after the entries' times
QueryTimes == {0, 299, 300, 301, 599, 600, 1379, 1380, 1439}

ScheduleInputs ==
    [kind : {"schedule"},
     prefs : {[DefaultPrefs EXCEPT !.schedule = sch] : sch \in ResolverSchedules},
     time : QueryTimes]

NoOut == [kind |-> "none", raised |-> FALSE, heater_on |-> FALSE, target |-> None]

DevIdle ==
    /\ current_temperature = 0 /\ target_temperature = 0
    /\ is_occupied = FALSE /\ heater_on = FALSE
    /\ store = [r \in Registers |-> 0]
    /\ stop_event = FALSE /\ sim_thread = "none" /\ modbus_thread = FALSE
    /\ pc = "none" /\ lifecycle = "Created" /\ wr = NoWrite /\ rd = NoRead
    /\ live_threads = NoThreads

InitDecision ==
    /\ inp \in LiveInputs \cup ReplayInputs \cup ScheduleInputs
    /\ out = NoOut
    /\ DevIdle
    /\ RepIdle
    /\ CtlIdle

CallMakeControlDecision ==
    /\ inp.kind = "live"
    /\ out = NoOut
    /\ out' = [kind |-> "live"] @@
              make_control_decision(inp.prefs, inp.current_temp, inp.occupancy,
                                    inp.heater, inp.time, inp.outdoor)
    /\ UNCHANGED <<inp, devVars, ctlVars, repVars>>

CallCalculateIdealTarget ==
    /\ inp.kind = "replay"
    /\ out = NoOut
    /\ out' = [kind |-> "replay", raised |-> FALSE, heater_on |-> FALSE,
               target |-> calculate_ideal_target(inp.time, inp.prefs,
                              inp.current_temp, inp.occupancy, inp.outdoor,
                              inp.forecast, inp.level)]
    /\ UNCHANGED <<inp, devVars, ctlVars, repVars>>

\* get_active_schedule_setpoint(preferences, current_time_dt)
CallGetActiveScheduleSetpoint ==
    /\ inp.kind = "schedule"
    /\ out = NoOut
    /\ out' = [kind |-> "live_setpoint", raised |-> FALSE, heater_on |-> FALSE,
               target |-> get_active_schedule_setpoint(inp.prefs, inp.time)]
    /\ UNCHANGED <<inp, devVars, ctlVars, repVars>>

\* _get_setpoints_for_time on the parsed, sorted schedule of the preferences
CallGetSetpointsForTime ==
    /\ inp.kind = "schedule"
    /\ out = NoOut
    /\ LET r == _get_setpoints_for_time(inp.time,
                     SortedSchedule(inp.prefs.schedule),
                     inp.prefs.default_occupied_temp,
                     inp.prefs.default_unoccupied_temp)
       IN  out' = [kind |-> "replay_setpoints", raised |-> FALSE,
                   heater_on |-> FALSE, target |-> r.occupied_temp,
                   unoccupied_temp |-> r.unoccupied_temp,
                   is_scheduled |-> r.is_scheduled]
    /\ UNCHANGED <<inp, devVars, ctlVars, repVars>>

\* One step of the replay loop: the price sample of the simulated time is
\* fetched and passed to calculate_ideal_target. The result for the same
\* inputs at level STANDARD is kept beside it.
CallArbiterAtPrice ==
    /\ inp.kind = "replay"
    /\ inp.level = get_current_energy_price(inp.time)
    /\ out = NoOut
    /\ out' = [kind |-> "priced", raised |-> FALSE, heater_on |-> FALSE,
               level |-> get_current_energy_price(inp.time),
               target |-> calculate_ideal_target(inp.time, inp.prefs,
                              inp.current_temp, inp.occupancy, inp.outdoor,
                              inp.forecast,
                              get_current_energy_price(inp.time)),
               standard |-> calculate_ideal_target(inp.time, inp.prefs,
                              inp.current_temp, inp.occupancy, inp.outdoor,
                              inp.forecast, "STANDARD")]
    /\ UNCHANGED <<inp, devVars, ctlVars, repVars>>

NextDecision ==
    \/ CallMakeControlDecision
    \/ CallCalculateIdealTarget
    \/ CallGetActiveScheduleSetpoint
    \/ CallGetSetpointsForTime
    \/ CallArbiterAtPrice

SpecDecision == InitDecision /\ [][NextDecision]_vars

C4_TargetWithinLimits ==
    (out.kind \in {"live", "replay"} /\ out.target # None
        /\ inp.prefs.min_target_temp # None /\ inp.prefs.max_target_temp # None
        /\ inp.prefs.min_target_temp <= inp.prefs.max_target_temp)
        => /\ inp.prefs.min_target_temp <= out.target
           /\ out.target <= inp.prefs.max_target_temp

\* C4 for the live decision alone
C4_LiveTargetWithinLimits ==
    (out.kind = "live") => C4_TargetWithinLimits

C18_BaseFollowsOccupancy ==
    (/\ out.kind = "live" /\ out.target # None
     /\ ~inp.prefs.allow_weather_adjustment
     /\ (inp.occupancy \/ inp.prefs.setback_setpoint = None))
    => LET active == _get_setpoints_for_time(inp.time,
                         SortedSchedule(inp.prefs.schedule),
                         inp.prefs.default_occupied_temp,
                         inp.prefs.default_unoccupied_temp)
           base == IF inp.occupancy THEN active.occupied_temp
                   ELSE active.unoccupied_temp
       IN  (inp.prefs.min_target_temp <= base
               /\ base <= inp.prefs.max_target_temp)
           => out.target = base

C20_PeakReduction ==
    (/\ out.kind = "priced" /\ out.level = "PEAK" /\ inp.occupancy
     /\ out.standard - inp.prefs.peak_occupied_temp_reduction
            >= inp.prefs.min_target_temp
     /\ (out.standard - inp.prefs.peak_occupied_temp_reduction) % 10 = 0)
    => out.target = out.standard - inp.prefs.peak_occupied_temp_reduction

\* C30: at the level PEAK the price source delivers, with
\* prioritize_comfort_over_peak_cost false, calculate_ideal_target applies no
\* predictive preheat increase: its target is not above the target the same
\* inputs give with predictive control switched off.
C30_PreheatSuppressedByPrice ==
    (/\ out.kind = "priced" /\ out.level = "PEAK"
     /\ ~inp.prefs.prioritize_comfort_over_peak_cost)
    => out.target <= calculate_ideal_target(inp.time,
                         [inp.prefs EXCEPT !.allow_predictive_control = FALSE],
                         inp.current_temp, inp.occupancy, inp.outdoor,
                         inp.forecast, out.level)

\* C31: in one call of calculate_ideal_target with predictive control on, the
\* only predictive adjustment applied is that of the first forecast slot
\* within predictive_window_hours at which a branch fires (preheat increase,
\* preheat to the future setpoint, or overheat reduction); the slots after it
\* have no effect, and with no such slot the target is the one without
\* predictive control.
C31_PredictiveFirstMatch ==
    (/\ out.kind = "replay" /\ inp.prefs.allow_predictive_control
     /\ inp.forecast # <<>> /\ inp.outdoor # None)
    => LET p == inp.prefs
           parsed == SortedSchedule(p.schedule)
           now == _get_setpoints_for_time(inp.time, parsed,
                      p.default_occupied_temp, p.default_unoccupied_temp)
           base == IF inp.occupancy THEN now.occupied_temp
                   ELSE now.unoccupied_temp
           ok == /\ inp.level # "super_peak"
                 /\ (inp.level # "peak" \/ p.prioritize_comfort_over_peak_cost)
           fut(i) == _get_setpoints_for_time(inp.forecast[i].time, parsed,
                         p.default_occupied_temp, p.default_unoccupied_temp)
           drop(i) == (inp.outdoor - inp.forecast[i].temp_c)
                          > p.predictive_temp_drop_threshold
           rise(i) == (inp.forecast[i].temp_c - inp.outdoor)
                          > p.predictive_temp_rise_threshold
           preheat(i) == drop(i) /\ ok /\ inp.occupancy
           ahead(i) == /\ drop(i) /\ ok /\ ~inp.occupancy
                       /\ fut(i).is_scheduled
                       /\ inp.forecast[i].temp_c < fut(i).occupied_temp
                       /\ inp.current_temp < fut(i).occupied_temp
           cooler(i) == rise(i) /\ inp.occupancy
           slots == {i \in 1 .. Min(p.predictive_window_hours, Len(inp.forecast)) :
                        preheat(i) \/ ahead(i) \/ cooler(i)}
           max_allowed == now.occupied_temp + p.max_combined_preheat_boost
           finish(x) ==
               ClampAndRound(p,
                   HighOutsideAdjusted(
                       PriceAdjusted(
                           CapBoost(x, inp.occupancy, now.unoccupied_temp,
                                    max_allowed),
                           p, inp.occupancy, inp.level, max_allowed),
                       p, inp.occupancy, inp.outdoor))
       IN  IF slots = {}
           THEN out.target = finish(base)
           ELSE LET k == Min2(slots)
                    adjusted ==
                        IF preheat(k)
                        THEN base + p.predictive_preheat_increase
                        ELSE IF ahead(k)
                        THEN fut(k).occupied_temp + p.predictive_preheat_increase
                        ELSE base - p.predictive_avoid_overheat_reduction
                IN  /\ out.target = finish(adjusted)
                    /\ out.target =
                           calculate_ideal_target(inp.time, p, inp.current_temp,
                               inp.occupancy, inp.outdoor,
                               SubSeq(inp.forecast, 1, k), inp.level)

\* C31 witness: unoccupied at 06:00 with 25.0 C outside, the first slot
\* (08:00, 7.0 C) preheats to the 07:00 period's 22.0 + 0.5 although the second
\* slot (18:00, 3.0 C) brings the larger drop and the 17:00 period's 19.0.
C31_Witness ==
    /\ out.kind = "replay" /\ inp.prefs.allow_predictive_control
    /\ ~inp.occupancy /\ inp.outdoor = 2500 /\ inp.time = 360
    /\ inp.level = "STANDARD" /\ inp.current_temp = 1650
    /\ inp.prefs.schedule # <<>>
    /\ Len(inp.forecast) = 2 /\ inp.forecast[2].temp_c = 300
    /\ inp.prefs.max_target_temp = 2500
    /\ out.target = 2250


\* C32: the target calculate_ideal_target returns for an occupied zone, and
\* any target it returns above the unoccupied setpoint for an unoccupied
\* zone, is at most max(min_target_temp, active occupied setpoint +
\* max_combined_preheat_boost).
C32_BoostCapped ==
    (out.kind = "replay")
    => LET p == inp.prefs
           now == _get_setpoints_for_time(inp.time, SortedSchedule(p.schedule),
                      p.default_occupied_temp, p.default_unoccupied_temp)
       IN  (inp.occupancy \/ out.target > now.unoccupied_temp)
           => out.target <= Max(p.min_target_temp,
                                now.occupied_temp + p.max_combined_preheat_boost)

(***************************************************************************)
(* Specification of the control job: run_control_logic_for_all_zones_job   *)
(* gathers one run_zone_control_logic task per zone on one database        *)
(* session. Tasks interleave at their awaits (the Modbus calls); each      *)
(* Modbus call may succeed, fail (None / False) or raise.                  *)
(***************************************************************************)
\* ---- bounds of the control model ----
NumZones == 2
Zones == 1 .. NumZones
\* The zones for which the manual trigger endpoint is called. An invocation of
\* run_zone_control_logic is named by a zone (the periodic job's task for the
\* zone) or by NumZones + zone (the manual trigger's call for the zone).
TriggerZones == {Min2(Zones)}
Triggers == {NumZones + z : z \in TriggerZones}
ZoneOf(i) == IF i \in Zones THEN i ELSE i - NumZones

ReadOutcomes == {"ok", "none", "raise"}
WriteOutcomes == {"ok", "fail", "raise"}

\* a zone whose preferences make make_control_decision raise
RaisingPrefs ==
    [DefaultPrefs EXCEPT !.allow_weather_adjustment = TRUE,
                         !.weather_adjustment_freezing_threshold = None]
\* per zone: whether the Zone row exists and has a Modbus host and port, its
\* preferences, latest SensorData temperature, time of day, weather
ZoneInputs ==
    [found : {TRUE}, modbus_configured : {TRUE},
     prefs : {DefaultPrefs, RaisingPrefs}, current_temp : {1900},
     time : {600}, outdoor : {1000}]
\* per zone: the device registers when the job first runs
DeviceTargets == {209, 215}
DeviceStates == [target : DeviceTargets, occ : {1}, heater : {0, 1}]

FreshTask == [pc |-> "start", occ |-> None, heater |-> None,
              decision |-> FALSE, target |-> None, mt |-> None,
              dt |-> None,
              res |-> "none", tw |-> 0, hw |-> 0,
              trec |-> 0, hrec |-> "none"]
IdleTask == [FreshTask EXCEPT !.pc = "idle"]

\* Zones are interchangeable: the configurations of a building are enumerated
\* up to the order of its zones.
ConfigRank(zone_input, device_state) ==
    (IF zone_input.prefs = DefaultPrefs THEN 0 ELSE 4)
    + 2 * device_state.heater
    + (IF device_state.target = Min2(DeviceTargets) THEN 0 ELSE 1)

ZoneConfigs ==
    /\ inp \in [Zones -> ZoneInputs]
    /\ dev \in [Zones -> DeviceStates]
    /\ \A z \in Zones \ {NumZones} :
          ConfigRank(inp[z], dev[z]) <= ConfigRank(inp[z + 1], dev[z + 1])
    \* a run that raises in make_control_decision only reads the occupancy and
    \* heater registers: one device state stands for all
    /\ \A z \in Zones :
          inp[z].prefs = RaisingPrefs
          => dev[z] = [target |-> Min2(DeviceTargets), occ |-> 1, heater |-> 0]

IdleJob == [pc |-> "idle", pending |-> {}, committed |-> {}, lost |-> {},
            manual |-> {}]

InitControl ==
    /\ ZoneConfigs
    /\ task = [z \in Zones |-> IdleTask]
    /\ job = IdleJob
    /\ out = NoOut
    /\ DevIdle
    /\ RepIdle

Finished(z) == task[z].pc \in {"idle", "done", "raised"}

\* db.add(models.Command(...)) on the job's session: pending until the job
\* commits; after the job rolled back and closed the session nothing commits
\* what a still-running task adds. The job record holds the Command rows of
\* the latest cycle: pending, committed, and lost (rolled back or orphaned).
\* A manual trigger's call adds to the session of its request (manual).
DbAdd(jb, z, command_type, status) ==
    LET rec == [zone |-> ZoneOf(z), command_type |-> command_type,
                status |-> status]
    IN  IF z \notin Zones
        THEN [jb EXCEPT !.manual = @ \cup {rec}]
        ELSE IF jb.pc = "gather"
        THEN [jb EXCEPT !.pending = @ \cup {rec}]
        ELSE [jb EXCEPT !.lost = @ \cup {rec}]

\* run_control_logic_for_all_zones_job: a new session, one task per zone.
JobStart ==
    /\ job.pc = "idle"
    /\ \A z \in Zones : Finished(z)
    /\ job' = [job EXCEPT !.pc = "gather", !.pending = {}, !.committed = {},
                          !.lost = {}]
    /\ task' = [i \in DOMAIN task |->
                  IF i \in Zones THEN FreshTask ELSE task[i]]
    /\ UNCHANGED <<dev, inp, out, devVars, repVars>>

\* asyncio.gather returned: db.commit()
JobCommit ==
    /\ job.pc = "gather"
    /\ \A z \in Zones : task[z].pc = "done"
    /\ job' = [job EXCEPT !.pc = "idle", !.committed = @ \cup job.pending,
                          !.pending = {}]
    /\ UNCHANGED <<task, dev, inp, out, devVars, repVars>>

\* asyncio.gather raised the exception of a task: db.rollback(), db.close();
\* the other tasks are not cancelled.
JobFail ==
    /\ job.pc = "gather"
    /\ \E z \in Zones : task[z].pc = "raised"
    /\ job' = [job EXCEPT !.pc = "idle", !.lost = @ \cup job.pending,
                          !.pending = {}]
    /\ UNCHANGED <<task, dev, inp, out, devVars, repVars>>

\* Mutant: the run goes on to the Modbus reads whatever the database holds.
SkipsNever(zone_input) == FALSE

\* the early returns before the Modbus reads: the zone is not found, has no
\* Modbus host or port, or has no SensorData row
SkipsBeforeReads(zone_input) ==
    \/ ~zone_input.found
    \/ ~zone_input.modbus_configured
    \/ zone_input.current_temp = None

\* run_zone_control_logic up to the first Modbus call (read_occupancy_status)
TaskStart(z) ==
    /\ task[z].pc = "start"
    /\ IF SkipsBeforeReads(inp[ZoneOf(z)])
       THEN task' = [task EXCEPT ![z].pc = "done"]
       ELSE \E o \in ReadOutcomes :
               task' = [task EXCEPT
                   ![z].pc = IF o = "raise" THEN "done" ELSE "read_heater",
                   ![z].occ = IF o = "ok" THEN dev[ZoneOf(z)].occ ELSE None]
    /\ UNCHANGED <<job, dev, inp, out, devVars, repVars>>

\* the second Modbus call (read_heater_status)
TaskReadHeater(z) ==
    /\ task[z].pc = "read_heater"
    /\ \E o \in ReadOutcomes :
          task' = [task EXCEPT
              ![z].pc = IF o = "raise" THEN "done" ELSE "decide",
              ![z].heater = IF o = "ok" THEN dev[ZoneOf(z)].heater ELSE None]
    /\ UNCHANGED <<job, dev, inp, out, devVars, repVars>>

\* the None check, make_control_decision, and the read of the device target
TaskDecide(z) ==
    /\ task[z].pc = "decide"
    /\ IF task[z].occ = None \/ task[z].heater = None
       THEN task' = [task EXCEPT ![z].pc = "done"]
       ELSE LET d == make_control_decision(inp[ZoneOf(z)].prefs, inp[ZoneOf(z)].current_temp,
                         ReadBool(task[z].occ), ReadBool(task[z].heater),
                         inp[ZoneOf(z)].time, inp[ZoneOf(z)].outdoor)
            IN  IF d.raised
                THEN task' = [task EXCEPT ![z].pc = "raised"]
                ELSE IF d.target = None
                THEN task' = [task EXCEPT ![z].pc = "done"]
                ELSE \E o \in ReadOutcomes :
                        task' = [task EXCEPT
                            ![z].pc = "write_target",
                            ![z].decision = d.heater_on,
                            ![z].target = d.target,
                            ![z].dt = dev[ZoneOf(z)].target,
                            ![z].mt = IF o = "ok" THEN ReadTemp(dev[ZoneOf(z)].target)
                                      ELSE None]
    /\ UNCHANGED <<job, dev, inp, out, devVars, repVars>>

\* Mutant: the target is rewritten whenever it is not equal to the device's.
TargetDiffersAtAll(current_modbus_target_temp, target_setpoint_used) ==
    current_modbus_target_temp # target_setpoint_used

\* abs(current_modbus_target_temp - target_setpoint_used) > 0.1
TargetDiffers(current_modbus_target_temp, target_setpoint_used) ==
    Abs(current_modbus_target_temp - target_setpoint_used) > 10

\* heater_on_decision != current_heater_state_from_modbus
HeaterDiffers(t) == t.decision # ReadBool(t.heater)

\* Mutant: the heater section is left out when the target update did not
\* succeed (the device target was not read, or its write was not recorded).
HeaterSectionAfterTargetOnly(z, t, jb) ==
    IF HeaterDiffers(t) /\ t.mt # None /\ t.tw = t.trec
    THEN \E o \in WriteOutcomes :
            /\ task' = [task EXCEPT ![z] =
                   [t EXCEPT !.pc = "after_heater_write", !.res = o,
                             !.hw = @ + 1]]
            /\ dev' = IF o = "ok"
                      THEN [dev EXCEPT ![ZoneOf(z)].heater =
                                IF t.decision THEN 1 ELSE 0]
                      ELSE dev
            /\ job' = jb
    ELSE /\ task' = [task EXCEPT ![z] = [t EXCEPT !.pc = "done"]]
         /\ dev' = dev
         /\ job' = jb

\* The heater section of run_zone_control_logic, entered with task record t and
\* job record jb: the write_heater_state call when the decision differs.
HeaterSection(z, t, jb) ==
    IF HeaterDiffers(t)
    THEN \E o \in WriteOutcomes :
            /\ task' = [task EXCEPT ![z] =
                   [t EXCEPT !.pc = "after_heater_write", !.res = o,
                             !.hw = @ + 1]]
            /\ dev' = IF o = "ok"
                      THEN [dev EXCEPT ![ZoneOf(z)].heater =
                                IF t.decision THEN 1 ELSE 0]
                      ELSE dev
            /\ job' = jb
    ELSE /\ task' = [task EXCEPT ![z] = [t EXCEPT !.pc = "done"]]
         /\ dev' = dev
         /\ job' = jb

\* the target section: the write_target_temperature call when the device
\* target was read and differs; otherwise straight on to the heater section
TaskWriteTarget(z) ==
    /\ task[z].pc = "write_target"
    /\ IF task[z].mt # None /\ TargetDiffers(task[z].mt, task[z].target)
       THEN \E o \in WriteOutcomes :
               /\ task' = [task EXCEPT ![z].pc = "after_target_write",
                                       ![z].res = o, ![z].tw = @ + 1]
               /\ dev' = IF o = "ok"
                         THEN [dev EXCEPT ![ZoneOf(z)].target =
                                   ScaleTemp(task[z].target)]
                         ELSE dev
               /\ job' = job
       ELSE HeaterSection(z, task[z], job)
    /\ UNCHANGED <<inp, out, devVars, repVars>>

\* The audit record of the target write: added only when the write returned
\* success.
TargetRecord(z, t, jb) ==
    IF t.res = "ok" THEN DbAdd(jb, z, "SET_TARGET_TEMP", "SUCCESS") ELSE jb

\* after the target write: the audit record, then the heater section
TaskAfterTargetWrite(z) ==
    /\ task[z].pc = "after_target_write"
    /\ HeaterSection(z,
           [task[z] EXCEPT !.trec = IF task[z].res = "ok" THEN @ + 1 ELSE @],
           TargetRecord(z, task[z], job))
    /\ UNCHANGED <<inp, out, devVars, repVars>>

\* Mutant: a heater write that raised is recorded like one that failed.
HeaterStatusNoError(res) ==
    IF res = "ok" THEN "SUCCESS" ELSE "FAILED"

\* the status of the SET_HEATER record for a write result
HeaterStatus(res) ==
    IF res = "ok" THEN "SUCCESS" ELSE IF res = "fail" THEN "FAILED" ELSE "ERROR"

\* after the heater write: the SET_HEATER record
TaskAfterHeaterWrite(z) ==
    /\ task[z].pc = "after_heater_write"
    /\ task' = [task EXCEPT ![z].pc = "done",
                            ![z].hrec = HeaterStatus(task[z].res)]
    /\ job' = DbAdd(job, z, "SET_HEATER", HeaterStatus(task[z].res))
    /\ UNCHANGED <<dev, inp, out, devVars, repVars>>

NextControl ==
    \/ JobStart
    \/ JobCommit
    \/ JobFail
    \/ \E z \in Zones : TaskStart(z)
    \/ \E z \in Zones : TaskReadHeater(z)
    \/ \E z \in Zones : TaskDecide(z)
    \/ \E z \in Zones : TaskWriteTarget(z)
    \/ \E z \in Zones : TaskAfterTargetWrite(z)
    \/ \E z \in Zones : TaskAfterHeaterWrite(z)

SpecControl == InitControl /\ [][NextControl]_vars

\* the Command records of zone z in the current cycle, wherever they are
Records(z, command_type) ==
    {r \in job.pending \cup job.committed \cup job.lost :
        r.zone = z /\ r.command_type = command_type}

\* a finished run of zone z that got as far as the decision
Decided(z) == task[z].pc = "done" /\ task[z].target # None

C6_TargetWriteRecorded ==
    \A z \in Zones :
        (Decided(z) /\ task[z].mt # None)
        => IF Abs(task[z].mt - task[z].target) > 10
           THEN /\ task[z].tw = 1
                /\ task[z].trec = 1
                /\ Cardinality(Records(z, "SET_TARGET_TEMP")) = 1
           ELSE /\ task[z].tw = 0
                /\ task[z].trec = 0
                /\ Records(z, "SET_TARGET_TEMP") = {}

\* C7: a tick that reaches the decision attempts a heater write if and only if
\* the decision differs from the heater state read from the device, and the
\* attempt adds exactly one SET_HEATER record: SUCCESS when the write returned
\* success, FAILED when it returned failure, ERROR when it raised.
C7_HeaterWriteRecorded ==
    \A z \in Zones :
        Decided(z)
        => IF task[z].decision # ReadBool(task[z].heater)
           THEN /\ task[z].hw = 1
                /\ task[z].hrec =
                       CASE task[z].res = "ok" -> "SUCCESS"
                         [] task[z].res = "fail" -> "FAILED"
                         [] task[z].res = "raise" -> "ERROR"
                         [] OTHER -> "none"
                /\ Records(z, "SET_HEATER") =
                       {[zone |-> z, command_type |-> "SET_HEATER",
                         status |-> task[z].hrec]}
           ELSE /\ task[z].hw = 0
                /\ task[z].hrec = "none"
                /\ Records(z, "SET_HEATER") = {}

\* C7 witness: a heater write that raised, recorded as ERROR.
C7_Witness ==
    \E z \in Zones :
        /\ Decided(z)
        /\ task[z].decision # ReadBool(task[z].heater)
        /\ task[z].hw = 1 /\ task[z].res = "raise" /\ task[z].hrec = "ERROR"

\* C40: a tick whose target update failed (the read of the device target
\* returned None or raised, or the target write returned failure or raised)
\* still writes the heater state and adds the SET_HEATER record when its
\* heater decision differs from the heater state read from the device.
C40_HeaterIndependentOfTarget ==
    \A z \in Zones :
        (/\ Decided(z)
         /\ task[z].mt = None \/ (task[z].tw = 1 /\ task[z].trec = 0)
         /\ task[z].decision # ReadBool(task[z].heater))
        => /\ task[z].hw = 1
           /\ task[z].hrec # "none"
           /\ \E r \in Records(z, "SET_HEATER") : r.status = task[z].hrec

\* C40 witness: the target write raised, and the heater write of the same
\* tick succeeded and was recorded.
C40_Witness ==
    \E z \in Zones :
        /\ Decided(z)
        /\ task[z].mt # None /\ task[z].tw = 1 /\ task[z].trec = 0
        /\ task[z].decision # ReadBool(task[z].heater)
        /\ task[z].hw = 1 /\ task[z].hrec = "SUCCESS"
        /\ Records(z, "SET_TARGET_TEMP") = {}

\* C8: when the run of one zone raised, every sibling zone of the cycle is
\* still processed and the Command records of the siblings are committed.
C8_SiblingsIsolated ==
    \A z \in Zones :
        (job.pc = "idle" /\ task[z].pc = "raised")
        => \A y \in Zones \ {z} :
              task[y].pc = "done"
              => /\ Records(y, "SET_TARGET_TEMP") \subseteq job.committed
                 /\ Records(y, "SET_HEATER") \subseteq job.committed


(***************************************************************************)
(* Specification of the control job with a zone the tick skips: zone 1 is  *)
(* missing, has no Modbus configuration, no sensor reading or preferences  *)
(* that fail validation, or is a regular zone whose reads may fail; its    *)
(* device shows the heater off where a decision would turn it on.          *)
(***************************************************************************)
SkippedInputs ==
    LET regular == [found |-> TRUE, modbus_configured |-> TRUE,
                    prefs |-> DefaultPrefs, current_temp |-> 1900,
                    time |-> 600, outdoor |-> 1000]
    IN  {regular,
         [regular EXCEPT !.found = FALSE],
         [regular EXCEPT !.modbus_configured = FALSE],
         [regular EXCEPT !.current_temp = None],
         [regular EXCEPT !.prefs = [DefaultPrefs EXCEPT !.valid = FALSE]]}

InitSkip ==
    /\ inp \in [Zones -> ZoneInputs \cup SkippedInputs]
    /\ dev \in [Zones -> DeviceStates]
    /\ inp[1] \in SkippedInputs
    /\ \A z \in Zones \ {1} : inp[z] \in ZoneInputs
    /\ \A z \in Zones \ {1, NumZones} : inp[z].prefs = DefaultPrefs
    /\ \A z \in Zones : dev[z].heater = 0
    /\ \A z \in Zones \ {NumZones} : dev[z].target = Min2(DeviceTargets)
    /\ task = [z \in Zones |-> IdleTask]
    /\ job = IdleJob
    /\ out = NoOut
    /\ DevIdle
    /\ RepIdle

SpecSkip == InitSkip /\ [][NextControl]_vars

\* C35: a run of run_zone_control_logic that finds its zone missing, without
\* Modbus configuration, without a sensor reading, with a failed occupancy or
\* heater read, or with preferences that fail validation ends without
\* raising, having issued no register write and added no Command record for
\* the zone.
C35_SkippedTickNoEffects ==
    \A z \in Zones :
        (/\ task[z].pc \in {"done", "raised"}
         /\ \/ ~inp[z].found
            \/ ~inp[z].modbus_configured
            \/ inp[z].current_temp = None
            \/ ~inp[z].prefs.valid
            \/ task[z].occ = None
            \/ task[z].heater = None)
        => /\ task[z].pc = "done"
           /\ task[z].tw = 0 /\ task[z].hw = 0
           /\ task[z].trec = 0 /\ task[z].hrec = "none"
           /\ Records(z, "SET_TARGET_TEMP") = {}
           /\ Records(z, "SET_HEATER") = {}

\* C35 witness: the zone has no sensor reading and its run ended at once,
\* while the job went on and committed a write for a sibling zone.
C35_Witness ==
    /\ inp[1].current_temp = None
    /\ task[1].pc = "done" /\ task[1].occ = None
    /\ job.pc = "idle"
    /\ \E r \in job.committed : r.zone # 1


(***************************************************************************)
(* Specification of the control job together with the manual trigger       *)
(* endpoint (trigger_control_logic_for_zone): the endpoint awaits          *)
(* run_zone_control_logic on its own session, on the event loop the        *)
(* periodic job runs on.                                                   *)
(***************************************************************************)
Invocations == Zones \cup Triggers

\* The zones the endpoint is not called for need no write: their device
\* already shows the decision.
InitTrigger ==
    /\ inp \in [Zones -> ZoneInputs]
    /\ dev \in [Zones -> DeviceStates]
    /\ \A z \in Zones \ TriggerZones :
          /\ inp[z].prefs = DefaultPrefs
          /\ dev[z] = [target |-> Min2(DeviceTargets), occ |-> 1, heater |-> 1]
    /\ \A z \in TriggerZones :
          inp[z].prefs = RaisingPrefs
          => dev[z] = [target |-> Min2(DeviceTargets), occ |-> 1, heater |-> 0]
    /\ task = [i \in Invocations |-> IdleTask]
    /\ job = IdleJob
    /\ out = NoOut
    /\ DevIdle
    /\ RepIdle

\* POST /zones/{zone_id}/trigger_control_logic: the zone exists and has a
\* Modbus configuration; run_zone_control_logic is awaited.
TriggerStart(z) ==
    /\ task[NumZones + z].pc = "idle"
    /\ task' = [task EXCEPT ![NumZones + z] = FreshTask]
    /\ job' = [job EXCEPT !.manual = {}]
    /\ UNCHANGED <<dev, inp, out, devVars, repVars>>

\* run_zone_control_logic returned: db.commit(), the zone is returned
TriggerReturn(z) ==
    /\ task[NumZones + z].pc = "done"
    /\ task' = [task EXCEPT ![NumZones + z] = IdleTask]
    /\ job' = [job EXCEPT !.committed = @ \cup job.manual, !.manual = {}]
    /\ UNCHANGED <<dev, inp, out, devVars, repVars>>

\* run_zone_control_logic raised: db.rollback(), HTTP 500
TriggerFail(z) ==
    /\ task[NumZones + z].pc = "raised"
    /\ task' = [task EXCEPT ![NumZones + z] = IdleTask]
    /\ job' = [job EXCEPT !.manual = {}]
    /\ UNCHANGED <<dev, inp, out, devVars, repVars>>

NextTrigger ==
    \/ JobStart
    \/ JobCommit
    \/ JobFail
    \/ \E z \in TriggerZones : TriggerStart(z)
    \/ \E z \in TriggerZones : TriggerReturn(z)
    \/ \E z \in TriggerZones : TriggerFail(z)
    \/ \E i \in Invocations : TaskStart(i)
    \/ \E i \in Invocations : TaskReadHeater(i)
    \/ \E i \in Invocations : TaskDecide(i)
    \/ \E i \in Invocations : TaskWriteTarget(i)
    \/ \E i \in Invocations : TaskAfterTargetWrite(i)
    \/ \E i \in Invocations : TaskAfterHeaterWrite(i)

SpecTrigger == InitTrigger /\ [][NextTrigger]_vars

\* an invocation of run_zone_control_logic that has made its first Modbus call
\* and has not yet ended
InProgress(i) == task[i].pc \notin {"idle", "start", "done", "raised"}

\* C16: at most one invocation of run_zone_control_logic per zone is in
\* progress: the manual trigger's call for a zone and the periodic job's task
\* for the same zone are never both between their first and last step.
C16_OneInvocationPerZone ==
    \A i \in Triggers : ~(InProgress(i) /\ InProgress(ZoneOf(i)))

(***************************************************************************)
(* Repeated calls: get_current_energy_price, make_control_decision and     *)
(* calculate_ideal_target called one after another in one process. The     *)
(* price source returns the entry of the module's ENERGY_PRICES dict       *)
(* itself, after writing the level and the timestamp into it.              *)
(***************************************************************************)
\* ---- bounds of the repeated calls ----
\* calls made in one behaviour
MaxCalls == 3
PriceLevelNames == {"OFF_PEAK", "STANDARD", "PEAK", "SUPER_PEAK"}
\* timestamps of the price lookups, minutes of one day: two in the off-peak
\* hours, one standard, one peak
PriceTimes == {60, 120, 600, 1100}

\* a dict key that is not there
Absent == "absent"

\* ENERGY_PRICES as the module defines it (prices in cents per kWh); the keys
\* "level" and "timestamp_utc" are absent until a lookup writes them
InitialPrices ==
    [level \in PriceLevelNames |->
        [price_per_kwh |-> CASE level = "OFF_PEAK" -> 10
                             [] level = "STANDARD" -> 18
                             [] level = "PEAK" -> 25
                             [] OTHER -> 40,
         currency |-> "EUR", level |-> Absent, timestamp_utc |-> None]]

\* a price record built by a caller, not by the price source
HandMadePrices ==
    {[price_per_kwh |-> 25, currency |-> "EUR", level |-> "peak",
      timestamp_utc |-> None]}

RepeatLiveArgs ==
    [prefs : {DefaultPrefs}, current_temp : {2080}, occupancy : {TRUE},
     heater : BOOLEAN, time : {600}, outdoor : {None}]

RepeatReplayArgs ==
    [prefs : {DefaultPrefs,
              [DefaultPrefs EXCEPT !.peak_occupied_temp_reduction = 100]},
     time : {1100}, current_temp : {1650}, occupancy : {TRUE},
     outdoor : {1000}, forecast : {<<>>}]

InitRepeat ==
    /\ DevIdle /\ CtlIdle /\ FunIdle
    /\ ENERGY_PRICES = InitialPrices
    /\ calls = <<>>
    /\ run = "unused"

\* the level of the most recent price lookup instead of the argument's
EnergyPriceLevelOfLastLookup(energy_price_info) ==
    LET lookups == {k \in DOMAIN calls : calls[k].fn = "get_current_energy_price"}
    IN  IF lookups = {} THEN energy_price_info.level
        ELSE calls[CHOOSE k \in lookups : \A j \in lookups : j <= k].ref

\* energy_price_info.get("level")
EnergyPriceLevel(energy_price_info) == energy_price_info.level

\* get_current_energy_price(time_override = t): the entry of the level is
\* updated in place and returned (ref names the entry returned)
GetCurrentEnergyPrice(t) ==
    /\ Len(calls) < MaxCalls
    /\ LET price_level == get_current_energy_price(t)
           result == [ENERGY_PRICES[price_level] EXCEPT
                          !.level = price_level, !.timestamp_utc = t]
       IN  /\ ENERGY_PRICES' = [ENERGY_PRICES EXCEPT ![price_level] = result]
           /\ calls' = Append(calls, [fn |-> "get_current_energy_price",
                                      args |-> t, ref |-> price_level,
                                      result |-> result])
    /\ UNCHANGED <<run, devVars, ctlVars, funVars>>

RepeatMakeControlDecision(x) ==
    /\ Len(calls) < MaxCalls
    /\ calls' = Append(calls,
           [fn |-> "make_control_decision", args |-> x, ref |-> None,
            result |-> make_control_decision(x.prefs, x.current_temp,
                           x.occupancy, x.heater, x.time, x.outdoor)])
    /\ UNCHANGED <<ENERGY_PRICES, run, devVars, ctlVars, funVars>>

\* calculate_ideal_target with a price record: one the price source returned
\* earlier (as the dict holds it now) or one the caller built
RepeatCalculateIdealTarget(x, energy_price_info) ==
    /\ Len(calls) < MaxCalls
    /\ calls' = Append(calls,
           [fn |-> "calculate_ideal_target",
            args |-> [x |-> x, energy_price_info |-> energy_price_info],
            ref |-> None,
            result |-> calculate_ideal_target(x.time, x.prefs, x.current_temp,
                           x.occupancy, x.outdoor, x.forecast,
                           EnergyPriceLevel(energy_price_info))])
    /\ UNCHANGED <<ENERGY_PRICES, run, devVars, ctlVars, funVars>>

ReturnedPrices ==
    {ENERGY_PRICES[l] : l \in {n \in PriceLevelNames : ENERGY_PRICES[n].level # Absent}}

NextRepeat ==
    \/ \E t \in PriceTimes : GetCurrentEnergyPrice(t)
    \/ \E x \in RepeatLiveArgs : RepeatMakeControlDecision(x)
    \/ \E x \in RepeatReplayArgs, info \in ReturnedPrices \cup HandMadePrices :
           RepeatCalculateIdealTarget(x, info)

SpecRepeat == InitRepeat /\ [][NextRepeat]_vars

C29_PriceLookupPure ==
    \A k \in DOMAIN calls :
        calls[k].fn = "get_current_energy_price"
        => /\ ENERGY_PRICES[calls[k].ref] = calls[k].result
           /\ \A j \in DOMAIN calls :
                 (calls[j].fn = calls[k].fn /\ calls[j].args = calls[k].args)
                 => calls[j].result = calls[k].result

(***************************************************************************)
(* Replay: run_historical_simulation_for_zone (src/src/historical_         *)
(* simulator.py), the background task of the service, and                  *)
(* run_simulation_for_zone (src/scripts/run_historical_simulation.py), the *)
(* script. Timestamps are whole hours counted from a Monday 00:00 UTC.     *)
(* A db.commit() either succeeds or raises; when it raises the session is  *)
(* rolled back: the pending rows are gone and the run record reads as it   *)
(* was last committed.                                                     *)
(***************************************************************************)
\* ---- constants of the two drivers ----
\* HEATER_POWER_KW = 2.0, in hundredths of a kWh per hourly step
HEATER_POWER_KW == 200
\* heating_rate = 1.0 degree per hour, hundredths
REPLAY_HEATING_RATE == 100
\* cooling_factor = 0.1: a tenth of the difference to the outdoor temperature
REPLAY_COOLING_DIVISOR == 10
\* max(10.0, min(30.0, sim_current_temp))
REPLAY_MIN_TEMP == 1000
REPLAY_MAX_TEMP == 3000
\* if (i + 1) % 100 == 0: progress message and commit
PROGRESS_EVERY == 100
\* INITIAL_ZONE_TEMP = 18.0
INITIAL_ZONE_TEMP == 1800
\* SIMULATION_TIME_STEP_MINUTES = 15
SIMULATION_TIME_STEP_MINUTES == 15

\* ---- bounds of the replay ----
\* hourly weather points of a short replay, each with any reading
MaxPoints == 3
\* a long replay passes the progress commit once
LongRun == PROGRESS_EVERY + 1

HourOf(ts) == ts % 24
WeekdayOf(ts) == (ts \div 24) % 7
\* datetime.time() of the timestamp, minutes of the day
TimeOf(ts) == HourOf(ts) * 60

\* Mutant: the weekday is not looked at.
SimOccupancyEveryDay(ts) == 7 <= HourOf(ts) /\ HourOf(ts) < 22

\* if 7 <= hour < 22 and weekday() < 5
SimOccupancy(ts) == 7 <= HourOf(ts) /\ HourOf(ts) < 22 /\ WeekdayOf(ts) < 5

\* Mutant: an empty weather list is not noticed.
WeatherMissingNever(n) == FALSE

\* if not historical_weather_data (n points were fetched; a failed fetch
\* returns the empty list)
WeatherMissing(n) == n = 0

\* first points of the replays: Mon 06:00, Mon 21:00, Fri 20:00, Sat 12:00
StartHours == {6, 21, 116, 132}
\* outdoor readings, before the alignment of their last digit
OutdoorBases == {-500, 2500}

\* one entry active from 05:00 with an occupied temperature above the default
ReplaySchedule ==
    <<[time |-> 300, occupied_temp |-> 2300, unoccupied_temp |-> 1800]>>

\* zone preferences of the service's replays
ServicePrefs ==
    {DefaultPrefs,
     [DefaultPrefs EXCEPT !.default_occupied_temp = 3500],
     [DefaultPrefs EXCEPT !.schedule = ReplaySchedule],
     [DefaultPrefs EXCEPT !.allow_weather_adjustment = TRUE,
                          !.weather_adjustment_freezing_threshold = 0,
                          !.weather_adjustment_mild_threshold = None],
     [DefaultPrefs EXCEPT !.valid = FALSE]}

\* zone preferences of the script's replays
ScriptPrefs ==
    {DefaultPrefs,
     [DefaultPrefs EXCEPT !.default_unoccupied_temp = 1820],
     [DefaultPrefs EXCEPT !.schedule = ReplaySchedule]}

NoStep == [kind |-> "none"]
NoRow == [status |-> "PENDING", message |-> "", points |-> <<>>,
          energy |-> None, hours |-> None]

\* a run as the endpoint created it: status PENDING, nothing stored
NewRun(driver, prefs, zone, start, n) ==
    [driver |-> driver, pc |-> "start", prefs |-> prefs, zone |-> zone,
     start |-> start, n |-> n,
     status |-> "PENDING", message |-> "", energy |-> None, hours |-> None,
     pending |-> <<>>, db |-> NoRow,
     i |-> 0, sim_current_temp |-> None, sim_heater_on |-> FALSE,
     total_energy_kwh |-> 0,
     db_errors |-> 0, failed_at |-> None, cause |-> "none", last |-> NoStep]

InitReplay ==
    /\ DevIdle /\ CtlIdle /\ FunIdle
    /\ ENERGY_PRICES = "unused" /\ calls = "unused"
    /\ run \in
         {NewRun("service", p, "ok", t, n) :
              p \in ServicePrefs, t \in StartHours, n \in 0 .. MaxPoints}
         \cup {NewRun("service", DefaultPrefs, z, Min2(StartHours), 1) :
              z \in {"missing", "no_coords"}}
         \cup {NewRun("service", DefaultPrefs, "ok", t, LongRun) :
              t \in StartHours}
         \cup {NewRun("script", p, "ok", t, n) :
              p \in ScriptPrefs, t \in StartHours, n \in 1 .. MaxPoints}
         \cup {NewRun("script", DefaultPrefs, "missing", Min2(StartHours), 1)}

\* db.commit(): the run record and the pending rows are stored
Commit(r) ==
    [r EXCEPT !.db = [status |-> r.status, message |-> r.message,
                      points |-> r.db.points \o r.pending,
                      energy |-> r.energy, hours |-> r.hours],
              !.pending = <<>>]

\* a commit that raised: the transaction is rolled back
Rollback(r) ==
    [r EXCEPT !.pending = <<>>,
              !.status = r.db.status, !.message = r.db.message,
              !.energy = r.db.energy, !.hours = r.db.hours,
              !.db_errors = @ + 1]

\* outcomes of the commits of the except blocks
HandlerOutcomes == {"stored", "stored_by_outer", "not_stored"}

\* the outer except block: status FAILED, "Setup Error", commit, and
\* db.rollback() when that commit raises
OuterHandler(r, ok) ==
    LET failed == [r EXCEPT !.status = "FAILED", !.message = "Setup Error"]
    IN  [(IF ok THEN Commit(failed) ELSE Rollback(failed))
            EXCEPT !.pc = "returned"]

\* Mutant: the inner except block returns without recording the failure.
InnerHandlerKeepsStatus(r, h) == [r EXCEPT !.pc = "returned"]

\* the inner except block: status FAILED, "Processing Error", commit; a
\* commit that raises there reaches the outer except block
InnerHandler(r, h) ==
    LET failed == [r EXCEPT !.status = "FAILED", !.message = "Processing Error"]
    IN  IF h = "stored" THEN [Commit(failed) EXCEPT !.pc = "returned"]
        ELSE OuterHandler(Rollback(failed), h = "stored_by_outer")

\* lines 103-124: the zone checks, then status RUNNING and the first commit
ReplayStart(ok, h) ==
    /\ run.driver = "service" /\ run.pc = "start"
    /\ run' =
         IF run.zone = "missing"
         THEN LET r == [run EXCEPT !.status = "FAILED",
                                   !.message = "Zone not found"]
              IN  IF ok THEN [Commit(r) EXCEPT !.pc = "returned"]
                  ELSE OuterHandler(Rollback(r), h = "stored_by_outer")
         ELSE IF run.zone = "no_coords"
         THEN LET r == [run EXCEPT !.status = "FAILED",
                                   !.message = "missing latitude/longitude"]
              IN  IF ok THEN [Commit(r) EXCEPT !.pc = "returned"]
                  ELSE OuterHandler(Rollback(r), h = "stored_by_outer")
         ELSE LET r == [run EXCEPT !.status = "RUNNING",
                                   !.message = "Fetching historical weather data"]
              IN  IF ok THEN [Commit(r) EXCEPT !.pc = "fetch"]
                  ELSE InnerHandler(Rollback(r), h)
    /\ UNCHANGED <<ENERGY_PRICES, calls, devVars, ctlVars, funVars>>

\* lines 126-163: the weather is fetched; without weather the run fails;
\* otherwise the preferences are parsed and the simulated state is set up
ReplayFetch(ok, h) ==
    /\ run.driver = "service" /\ run.pc = "fetch"
    /\ run' =
         IF WeatherMissing(run.n)
         THEN LET r == [run EXCEPT !.status = "FAILED",
                            !.message = "Failed to fetch historical weather data"]
              IN  IF ok THEN [Commit(r) EXCEPT !.pc = "returned"]
                  ELSE InnerHandler(Rollback(r), h)
         ELSE LET r == [run EXCEPT !.message = "Processing hourly weather points"]
              IN  IF ~ok THEN InnerHandler(Rollback(r), h)
                  ELSE IF ~run.prefs.valid
                  THEN InnerHandler(Commit(r), h)
                  ELSE LET initial_time ==
                               IF run.n > 0 THEN TimeOf(run.start) ELSE 0
                           initial_target_temp ==
                               get_active_schedule_setpoint(run.prefs, initial_time)
                           temp == run.prefs.default_occupied_temp
                       IN  [Commit(r) EXCEPT
                               !.sim_current_temp = temp,
                               !.sim_heater_on =
                                   (initial_target_temp # None
                                    /\ temp < initial_target_temp - 50),
                               !.total_energy_kwh = 0,
                               !.i = 0,
                               !.pc = IF run.n = 0 THEN "complete" ELSE "loop"]
    /\ UNCHANGED <<ENERGY_PRICES, calls, devVars, ctlVars, funVars>>

\* the readings a step may see: the hourly reading, its last digit that of
\* the simulated temperature so that a tenth of their difference is exact in
\* hundredths, or no reading (None, replaced by 10.0); one reading in a long
\* replay
Readings(r) ==
    IF r.n > MaxPoints THEN {Min2(OutdoorBases) + (r.sim_current_temp % 10)}
    ELSE {b + (r.sim_current_temp % 10) : b \in OutdoorBases}
         \cup (IF r.sim_current_temp % 10 = 0 THEN {None} ELSE {})

\* lines 165-222: one pass of the loop over the weather points
ReplayStep(reading, ok, h) ==
    /\ run.driver = "service" /\ run.pc = "loop" /\ run.i < run.n
    /\ reading \in Readings(run)
    /\ LET current_historical_time_utc == run.start + run.i
           outdoor_temp == IF reading = None THEN 1000 ELSE reading
           sim_occupancy == SimOccupancy(current_historical_time_utc)
           d == make_control_decision(run.prefs, run.sim_current_temp,
                    sim_occupancy, run.sim_heater_on,
                    TimeOf(current_historical_time_utc), outdoor_temp)
           data_point ==
               [timestamp_utc |-> current_historical_time_utc,
                temperature_simulated |-> run.sim_current_temp,
                target_temperature_control |->
                    IF d.target # None THEN d.target ELSE run.sim_current_temp,
                heater_on_simulated |-> run.sim_heater_on,
                occupancy_simulated |-> sim_occupancy,
                outdoor_temp_actual |-> outdoor_temp,
                energy_price_level_simulated |->
                    get_current_energy_price(TimeOf(current_historical_time_utc))]
           unclamped ==
               IF d.heater_on
               THEN run.sim_current_temp + REPLAY_HEATING_RATE
               ELSE run.sim_current_temp
                    - (run.sim_current_temp - outdoor_temp)
                          \div REPLAY_COOLING_DIVISOR
           stepped ==
               [run EXCEPT
                   !.pending = Append(@, data_point),
                   !.sim_heater_on = d.heater_on,
                   !.sim_current_temp =
                       Max(REPLAY_MIN_TEMP, Min(REPLAY_MAX_TEMP, unclamped)),
                   !.total_energy_kwh =
                       IF d.heater_on THEN @ + HEATER_POWER_KW ELSE @,
                   !.i = @ + 1,
                   !.pc = IF run.i + 1 = run.n THEN "complete" ELSE "loop",
                   !.last = [kind |-> "step",
                             current_temp |-> run.sim_current_temp,
                             target |-> d.target,
                             prior |-> run.sim_heater_on,
                             decision |-> d.heater_on,
                             occupancy |-> sim_occupancy,
                             timestamp_utc |-> current_historical_time_utc,
                             outdoor |-> outdoor_temp,
                             unclamped |-> unclamped]]
       IN  run' =
             IF d.raised
             THEN InnerHandler([run EXCEPT !.failed_at = run.i,
                                           !.cause = "decision"], h)
             ELSE IF (run.i + 1) % PROGRESS_EVERY # 0 THEN stepped
             ELSE LET r == [stepped EXCEPT !.message = "Processed data points"]
                  IN  IF ok THEN Commit(r)
                      ELSE InnerHandler([Rollback(r) EXCEPT
                                            !.failed_at = run.i,
                                            !.cause = "commit"], h)
    /\ UNCHANGED <<ENERGY_PRICES, calls, devVars, ctlVars, funVars>>

\* lines 224-228: status COMPLETED, the hours and the energy, and the commit
ReplayComplete(ok, h) ==
    /\ run.driver = "service" /\ run.pc = "complete"
    /\ LET r == [run EXCEPT !.status = "COMPLETED",
                            !.message = "Simulation completed",
                            !.hours = run.n,
                            !.energy = run.total_energy_kwh]
       IN  run' = IF ok THEN [Commit(r) EXCEPT !.pc = "returned"]
                  ELSE InnerHandler(Rollback(r), h)
    /\ UNCHANGED <<ENERGY_PRICES, calls, devVars, ctlVars, funVars>>

\* calculate_new_zone_temp: the rates are read from the preferences object;
\* ZonePreferences declares neither heating_rate_degC_per_hour nor
\* cooling_rate_factor_per_hour, and reading an attribute the object does not
\* have raises AttributeError
calculate_new_zone_temp(current_temp, target_temp, outside_temp, heater, time_step_minutes, zone_prefs) ==
    IF "heating_rate_degC_per_hour" \notin DOMAIN zone_prefs
       \/ "cooling_rate_factor_per_hour" \notin DOMAIN zone_prefs
    THEN [raised |-> TRUE, new_temp |-> None]
    ELSE [raised |-> FALSE,
          new_temp |->
              current_temp
              + (IF heater
                 THEN (zone_prefs.heating_rate_degC_per_hour
                           * time_step_minutes) \div 60
                 ELSE 0)
              + ((outside_temp - current_temp)
                     * zone_prefs.cooling_rate_factor_per_hour
                     * time_step_minutes) \div 6000]

\* the script, to the start of its loop: the zone is loaded, the weather is
\* fetched and the state is initialised
ScriptStart ==
    /\ run.driver = "script" /\ run.pc = "start"
    /\ run' = IF run.zone # "ok" THEN [run EXCEPT !.pc = "returned"]
              ELSE [run EXCEPT !.sim_current_temp = INITIAL_ZONE_TEMP,
                               !.sim_heater_on = FALSE,
                               !.pc = "loop"]
    /\ UNCHANGED <<ENERGY_PRICES, calls, devVars, ctlVars, funVars>>

\* one pass of the script's loop: price, weather, occupancy from the
\* schedule, target, heater state, next temperature, log row
ScriptStep(current_outside_temp, hourly_forecast_data) ==
    /\ run.driver = "script" /\ run.pc = "loop"
    /\ LET current_sim_time == TimeOf(run.start)
                               + run.i * SIMULATION_TIME_STEP_MINUTES
           energy_price_level == get_current_energy_price(current_sim_time)
           occupied_now ==
               \E k \in DOMAIN run.prefs.schedule :
                   current_sim_time >= run.prefs.schedule[k].time
           ideal_target ==
               calculate_ideal_target(current_sim_time, run.prefs,
                   run.sim_current_temp, occupied_now, current_outside_temp,
                   hourly_forecast_data, energy_price_level)
           heater_decided == run.sim_current_temp < ideal_target
           next == calculate_new_zone_temp(run.sim_current_temp, ideal_target,
                       current_outside_temp, heater_decided,
                       SIMULATION_TIME_STEP_MINUTES, run.prefs)
           decided ==
               [run EXCEPT
                   !.sim_heater_on = heater_decided,
                   !.last = [kind |-> "step",
                             current_temp |-> run.sim_current_temp,
                             target |-> ideal_target,
                             prior |-> run.sim_heater_on,
                             decision |-> heater_decided,
                             occupancy |-> occupied_now,
                             timestamp_utc |-> run.start,
                             outdoor |-> current_outside_temp,
                             unclamped |-> next.new_temp]]
       IN  run' =
             IF next.raised
             THEN [decided EXCEPT !.pc = "crashed", !.failed_at = run.i,
                                  !.cause = "AttributeError"]
             ELSE [decided EXCEPT
                      !.sim_current_temp = next.new_temp,
                      !.pending = Append(@,
                          [timestamp_utc |-> run.start,
                           temperature_simulated |-> next.new_temp,
                           target_temperature_control |-> ideal_target,
                           heater_on_simulated |-> heater_decided,
                           occupancy_simulated |-> occupied_now,
                           outdoor_temp_actual |-> current_outside_temp,
                           energy_price_level_simulated |-> energy_price_level]),
                      !.i = @ + 1,
                      !.pc = IF run.i + 1 = 4 * run.n THEN "returned"
                             ELSE "loop"]
    /\ UNCHANGED <<ENERGY_PRICES, calls, devVars, ctlVars, funVars>>

NextReplay ==
    \/ \E ok \in BOOLEAN, h \in HandlerOutcomes : ReplayStart(ok, h)
    \/ \E ok \in BOOLEAN, h \in HandlerOutcomes : ReplayFetch(ok, h)
    \/ \E reading \in {b + e : b \in OutdoorBases, e \in 0 .. 9} \cup {None},
          ok \in BOOLEAN, h \in HandlerOutcomes : ReplayStep(reading, ok, h)
    \/ \E ok \in BOOLEAN, h \in HandlerOutcomes : ReplayComplete(ok, h)
    \/ ScriptStart
    \/ \E t \in OutdoorBases \cup {1000},
          f \in {<<>>, <<[time |-> 480, temp_c |-> 700]>>} : ScriptStep(t, f)

SpecReplay == InitReplay /\ [][NextReplay]_vars

\* every data point of the run, stored or still pending in the session
DataPoints == run.db.points \o run.pending

\* C22: for every COMPLETED run of the service's replay, calculated_energy_kwh
\* is 2.0 kWh times the number of the run's data points whose
\* heater_on_simulated is true.
C22_EnergyMatchesHeaterPoints ==
    (run.driver = "service" /\ run.db.status = "COMPLETED")
    => run.db.energy =
           HEATER_POWER_KW
             * Cardinality({k \in DOMAIN run.db.points :
                               run.db.points[k].heater_on_simulated})

\* C23: every data point of a replay records a simulated temperature within
\* [10, 30] degrees, in both drivers.
C23_RecordedTempWithinBand ==
    \A k \in DOMAIN DataPoints :
        /\ DataPoints[k].temperature_simulated >= 1000
        /\ DataPoints[k].temperature_simulated <= 3000

\* C24: a replay of the service that obtained no weather samples (and whose
\* commits all succeeded) has returned with run status FAILED, a status
\* message, and no data point stored.
C24_NoWeatherFails ==
    (/\ run.driver = "service" /\ run.pc = "returned"
     /\ run.zone = "ok" /\ run.n = 0 /\ run.db_errors = 0)
    => /\ run.db.status = "FAILED"
       /\ run.db.message # ""
       /\ run.db.points = <<>>

\* C24 witness: a run without weather has returned FAILED with the message
\* of the weather check.
C24_Witness ==
    /\ run.driver = "service" /\ run.pc = "returned"
    /\ run.zone = "ok" /\ run.n = 0 /\ run.db_errors = 0
    /\ run.db.status = "FAILED"
    /\ run.db.message = "Failed to fetch historical weather data"

\* C25: when the loop of the service's replay failed at step k (a failure of
\* the decision with every commit succeeding, or a commit of the loop that
\* raised), the run has returned with status FAILED, a status message, and
\* the data points of the steps before k stored.
C25_FailureKeepsProgress ==
    (/\ run.driver = "service" /\ run.pc = "returned"
     /\ run.failed_at # None
     /\ (run.cause = "decision" => run.db_errors = 0))
    => /\ run.db.status = "FAILED"
       /\ run.db.message # ""
       /\ Len(run.db.points) >= run.failed_at

\* C26: at every replay step of either driver the heater decision is the one
\* of the live hysteresis rule for the step's temperature, target and prior
\* heater state: on below target - 0.5, off above target + 0.2, else kept.
C26_ReplayDecisionIsHysteresis ==
    (run.last.kind = "step" /\ run.last.target # None)
    => run.last.decision =
           (IF run.last.current_temp < run.last.target - 50 THEN TRUE
            ELSE IF run.last.current_temp > run.last.target + 20 THEN FALSE
            ELSE run.last.prior)

\* C27: the temperature a step of the service's replay computes before
\* clamping is current + (1.0 if the heater is on) + (outdoor - current) / 10:
\* the outdoor exchange is applied in heater-on steps too.
C27_ThermalStep ==
    (run.driver = "service" /\ run.last.kind = "step")
    => run.last.unclamped =
           run.last.current_temp
           + (IF run.last.decision THEN 100 ELSE 0)
           + (run.last.outdoor - run.last.current_temp) \div 10

\* C28: the occupancy a step of the service's replay uses and records is true
\* exactly when the step's timestamp is on Monday to Friday with
\* 7 <= hour < 22.
C28_OccupancyRule ==
    run.driver = "service"
    => /\ \A k \in DOMAIN DataPoints :
             DataPoints[k].occupancy_simulated
                 = (/\ (DataPoints[k].timestamp_utc \div 24) % 7 < 5
                    /\ DataPoints[k].timestamp_utc % 24 >= 7
                    /\ DataPoints[k].timestamp_utc % 24 < 22)
       /\ run.last.kind = "step"
             => run.last.occupancy
                    = (/\ (run.last.timestamp_utc \div 24) % 7 < 5
                       /\ run.last.timestamp_utc % 24 >= 7
                       /\ run.last.timestamp_utc % 24 < 22)

\* C28 witness: a Saturday noon point recorded unoccupied and, in another
\* run, a Friday 21:00 point recorded occupied followed by a 22:00 point
\* recorded unoccupied.
C28_Witness ==
    /\ run.driver = "service"
    /\ \E k \in DOMAIN DataPoints :
          \/ /\ DataPoints[k].timestamp_utc = 132
             /\ ~DataPoints[k].occupancy_simulated
          \/ /\ DataPoints[k].timestamp_utc = 118
             /\ ~DataPoints[k].occupancy_simulated
             /\ DataPoints[k - 1].occupancy_simulated

\* the replay of the service with its task scheduled until it returns
SpecReplayFair == SpecReplay /\ WF_vars(NextReplay)

\* the moves of a run's stored status
StatusMoves ==
    {<<"PENDING", "RUNNING">>, <<"PENDING", "FAILED">>,
     <<"RUNNING", "COMPLETED">>, <<"RUNNING", "FAILED">>}

\* C36: the stored status of a run of the service's replay only moves
\* PENDING -> RUNNING -> COMPLETED or FAILED, or PENDING -> FAILED, and
\* COMPLETED and FAILED are never left; the task returns, and when every
\* commit succeeded the run is then COMPLETED or FAILED; a COMPLETED run has
\* one stored data point per weather sample, in the order of the samples,
\* and total_simulated_hours equal to the number of samples.
C36_RunStatusMachine ==
    /\ [][run.driver = "service"
           => \/ run'.db.status = run.db.status
              \/ <<run.db.status, run'.db.status>> \in StatusMoves]_vars
    /\ []((run.driver = "service" /\ run.pc = "returned"
            /\ run.db_errors = 0)
           => run.db.status \in {"COMPLETED", "FAILED"})
    /\ []((run.driver = "service" /\ run.db.status = "COMPLETED")
           => /\ Len(run.db.points) = run.n
              /\ \A k \in DOMAIN run.db.points :
                    run.db.points[k].timestamp_utc = run.start + k - 1
              /\ run.db.hours = run.n)
    /\ (run.driver = "service") ~> (run.pc = "returned")

\* C36 witness: a run of three weather samples went PENDING, RUNNING,
\* COMPLETED with every commit succeeding and its three points stored.
C36_Witness ==
    /\ run.driver = "service" /\ run.pc = "returned"
    /\ run.db_errors = 0 /\ run.n = MaxPoints
    /\ run.db.status = "COMPLETED"
    /\ Len(run.db.points) = MaxPoints
    /\ run.db.hours = MaxPoints



(***************************************************************************)
(* Specification of the device's thermal behaviour: a ZoneSimulator        *)
(* constructed with initial temperatures and targets inside and outside    *)
(* the 10..30 C band, started, and a client that writes out-of-band        *)
(* targets while the updater ticks.                                        *)
(***************************************************************************)
\* constructor arguments initial_temp and initial_target_temp, hundredths
ThermalTemps == {500, 2057, 2995, 3500}
ThermalTargets == {2117, 3000}
\* the temperatures a client passes to write_target_temperature, hundredths
ThermalTargetWrites == {500, 3500}

InitThermal ==
    /\ current_temperature \in ThermalTemps
    /\ target_temperature \in ThermalTargets
    /\ is_occupied = FALSE
    /\ heater_on = (current_temperature < target_temperature - SimBand)
    /\ store = RegisterValues
    /\ stop_event = FALSE
    /\ sim_thread = "none"
    /\ modbus_thread = FALSE
    /\ pc = "none"
    /\ lifecycle = "Created"
    /\ wr = NoWrite
    /\ rd = NoRead
    /\ live_threads = NoThreads
    /\ CtlIdle /\ FunIdle /\ RepIdle

\* write_target_temperature(host, port, temp) with a temperature outside the
\* band: the register server applies it like any other value
WriteTargetOutOfBand ==
    \E temp \in ThermalTargetWrites :
        ServeWrite(REG_TARGET_TEMP, ScaleTemp(temp))

NextThermal ==
    \/ Start
    \/ LoopCheck
    \/ UpdateSimulation
    \/ UpdateModbusDatastore
    \/ ReadTargetTempFromModbus
    \/ WriteTargetOutOfBand

SpecThermal == InitThermal /\ [][NextThermal]_vars

\* C33: the publish step of an updater tick leaves round(value x 10) of the
\* runtime current and target temperatures in registers 0 and 1 (20.57 C
\* gives 206) and 0 or 1 in the occupancy and heater registers.
C33_RegisterEncoding ==
    [][(pc = "publish" /\ pc' = "readback")
          => /\ store'[REG_CURRENT_TEMP] = RoundHalfEven(current_temperature, 10)
             /\ store'[REG_TARGET_TEMP] = RoundHalfEven(target_temperature, 10)
             /\ store'[REG_OCCUPANCY] \in {0, 1}
             /\ store'[REG_HEATER_STATUS] \in {0, 1}]_vars

\* C34: the state update of an updater tick turns the heater on when it was
\* off and current < target - 0.5, turns it off when it was on and
\* current > target, and leaves the heater state unchanged in every other case.
C34_SimulatorHysteresis ==
    [][(pc = "update" /\ pc' = "publish")
          => heater_on' =
                IF ~heater_on /\ current_temperature < target_temperature - 50
                THEN TRUE
                ELSE IF heater_on /\ current_temperature > target_temperature
                THEN FALSE
                ELSE heater_on]_vars

\* C34 witness: a tick has just turned the heater off above the target: the
\* heater register still shows the heater on from the previous publish.
C34_Witness ==
    /\ pc = "publish" /\ ~heater_on
    /\ store[REG_HEATER_STATUS] = 1
    /\ current_temperature > target_temperature - 50
    /\ target_temperature = 2117

\* C37: once an updater tick has updated the state (and until the tick
\* ends), the runtime current_temperature lies in [10.0, 30.0], and after the
\* tick's publish the current-temperature register lies in [100, 300],
\* whatever the initial temperature and the target (initial or written by a
\* client).
C37_TemperatureWithinBand ==
    /\ (pc \in {"publish", "readback"})
           => (1000 <= current_temperature /\ current_temperature <= 3000)
    /\ (pc = "readback")
           => (100 <= store[REG_CURRENT_TEMP] /\ store[REG_CURRENT_TEMP] <= 300)

\* C37 witness: the simulator adopted a client's target of 35.0 C and a
\* later tick heated against the upper end of the band.
C37_Witness ==
    /\ target_temperature = 3500 /\ heater_on
    /\ current_temperature = 3000 /\ pc = "readback"
    /\ store[REG_CURRENT_TEMP] = 300

(***************************************************************************)
(* The same device with no client connected: the target stays what the     *)
(* constructor set (at most 30.0 C). The operating system schedules the    *)
(* updater thread: its steps are taken under weak fairness.                *)
(***************************************************************************)
NextThermalQuiet ==
    \/ Start
    \/ LoopCheck
    \/ UpdateSimulation
    \/ UpdateModbusDatastore
    \/ ReadTargetTempFromModbus

SpecThermalQuiet ==
    InitThermal /\ [][NextThermalQuiet]_vars /\ WF_vars(Updater)

\* C38: in a running simulator whose target stays unchanged at a value of at
\* most 30.0 C, a heater that is on is eventually turned off by the updater.
C38_HeaterEventuallyOff ==
    (lifecycle = "Running" /\ heater_on /\ target_temperature <= 3000)
        ~> ~heater_on

====
